------------------------------- MODULE ClashApi -------------------------------
(***************************************************************************)
(* The fixed loopback API of the managed core, as the worker reads it: one *)
(* request for the connections, one message of the traffic stream, at most *)
(* one message of the log stream.  Every wait has REQUEST_TIMEOUT.  What   *)
(* the core may answer is the input; only these answers are told apart.    *)
(***************************************************************************)
EXTENDS Integers, Sequences

ClashApiError == {"Unavailable", "InvalidResponse"}

(* HTTP: no answer in time, a status that is no success, a body that is    *)
(* not the JSON asked for, or that JSON.                                   *)
HttpAnswers == {"none", "refused", "garbled", "json"}

get_json(answer) ==
  CASE answer = "json" -> "ok" [] answer = "garbled" -> "InvalidResponse" [] OTHER -> "Unavailable"

read_connections(answer) == get_json(answer)

(* A stream: what its handshake meets, and the first thing that comes.  A  *)
(* core whose log is disabled answers the handshake with an empty response.*)
Handshakes == {"none", "refused", "empty", "open"}
Frames == {"none", "end", "close", "text", "garbled", "binary", "broken"}

open_fixed_stream(stream, handshake) ==
  CASE handshake = "open" -> "open"
    [] handshake = "empty" /\ stream = "Logs" -> "noLogs"
    [] OTHER -> "Unavailable"

parse_message(frame) == IF frame = "text" THEN "ok" ELSE "InvalidResponse"

read_single_stream_message(handshake, frame) ==
  IF open_fixed_stream("Traffic", handshake) = "open" /\ frame \in {"text", "garbled"}
  THEN "message" ELSE "Unavailable"

read_single_log_message(handshake, frame) ==
  CASE open_fixed_stream("Logs", handshake) = "noLogs" -> "noLogs"
    [] open_fixed_stream("Logs", handshake) = "Unavailable" -> "Unavailable"
    [] frame \in {"none", "end", "close"} -> "noLogs"
    [] frame \in {"text", "garbled"} -> "message"
    [] OTHER -> "Unavailable"

read_traffic_once(handshake, frame) ==
  LET read == read_single_stream_message(handshake, frame)
  IN IF read = "message" THEN parse_message(frame) ELSE read

read_log_once(handshake, frame) ==
  LET read == read_single_log_message(handshake, frame)
  IN IF read = "message" THEN parse_message(frame) ELSE read

(* RuntimeObservationBridge::sample: a stream is read when its last sample *)
(* is old enough, and the first reading that fails ends the sample.        *)
Streams == {"notDue"} \cup (Handshakes \X Frames)

Reading(stream, Read(_, _)) == IF stream = "notDue" THEN "notDue" ELSE Read(stream[1], stream[2])

sample(connections, traffic, logs) ==
  LET rates == Reading(traffic, read_traffic_once)
  IN IF \/ read_connections(connections) # "ok" \/ rates \in ClashApiError
        \/ Reading(logs, read_log_once) \in ClashApiError
     THEN "failed" ELSE IF rates = "ok" THEN "traffic" ELSE "connections"

(* Everything a sample can come to.                                        *)
Samples == {sample(c, t, l) : c \in HttpAnswers, t \in Streams, l \in Streams}
=============================================================================
