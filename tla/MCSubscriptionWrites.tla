---- MODULE MCSubscriptionWrites ----
EXTENDS SubscriptionWrites
====
