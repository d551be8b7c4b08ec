----------------------------- MODULE MCProcess ------------------------------
(* Three ports, three connections and five clients to visit, errors that   *)
(* pass four functions, and the logs of a few days.                        *)
EXTENDS Process

ThreeConnections == {"c1", "c2", "c3"}

(* Limits of which the longest leaves the others time to pass twice; and   *)
(* two clients with short ones.                                            *)
OneClient ==
  [Clients |-> {"c1"},
   MAX_INCOMPLETE_REQUEST_TIME |-> 2, MAX_EMPTY_REQUEST_STREAM_TIME |-> 6,
   MAX_FULL_RESPONSE_STREAM_TIME |-> 2, MAX_INCOMPLETE_RESPONSE_TIME |-> 2,
   MAX_RESPONSE_STREAM_SIZE |-> 3, MaxResponse |-> 3, MaxWaiting |-> 3]
TwoClients ==
  [Clients |-> {"c1", "c2"},
   MAX_INCOMPLETE_REQUEST_TIME |-> 1, MAX_EMPTY_REQUEST_STREAM_TIME |-> 2,
   MAX_FULL_RESPONSE_STREAM_TIME |-> 1, MAX_INCOMPLETE_RESPONSE_TIME |-> 1,
   MAX_RESPONSE_STREAM_SIZE |-> 2, MaxResponse |-> 2, MaxWaiting |-> 1]

(* Up to five files before the first start: four days' logs and a numbered *)
(* one.                                                                    *)
LogFiles == {<<0, 0>>, <<0, 1>>, <<2, 0>>, <<4, 0>>, <<6, 0>>}
LogDirectories == UNION {[files -> {1, 3}] : files \in SUBSET LogFiles}
=============================================================================
