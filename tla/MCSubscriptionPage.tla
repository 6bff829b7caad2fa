------------------------ MODULE MCSubscriptionPage ------------------------
EXTENDS SubscriptionPage
=============================================================================
