------------------------------- MODULE Errors -------------------------------
(***************************************************************************)
(* An error on its way: made where something fails, extended by each       *)
(* function that returns it (commonlib/source/error.c,                     *)
(* source/extended_error.c), handled by server_process_client_round or     *)
(* server_process_client (source/server/high_level.c) or, if it is fatal,  *)
(* by common_main (source/main.c).                                         *)
(*                                                                         *)
(* An error is a list of allocated messages, the last call first, that     *)
(* ends with OK, or with PANIC if memory ran out.  With it goes a number,  *)
(* the or of what is to be done (enum ExErrorFlag) and of the message that *)
(* the peer gets (enum FixedResponse); here the set of the places of its   *)
(* bits.                                                                   *)
(***************************************************************************)
EXTENDS Integers, Sequences, SequencesExt

CONSTANT MaxFrames       \* bound: the functions that an error passes

VARIABLES
  pc, live,              \* the allocated messages
  chain, end, flags,     \* the error and its flags
  cause,                 \* history: its first message
  raised,                \* history: its flags and fixed response as written
  client,                \* of the client visited: [ssl, dead]
  done                   \* history: what was done, and the messages sent

vars == <<pc, live, chain, end, flags, cause, raised, client, done>>

SEND == 0
SHUTDOWN == 1
CLOSE == 2
LOG == 3
DIE == 4
Actions == {SEND, SHUTDOWN, CLOSE, LOG, DIE}

\* enum FixedResponse: 0, and 1 << 8 with those that count on from it.
FR_MAX_CLIENTS == {}
FR_MAX_MEMORY == {8}
FR_MAX_UTILIZATION == {8, 0}
FR_UNKNOWN == {8, 1}
FR_REQUEST_INVALID == {8, 1, 0}
FR_MAX_AVAILABLE_REQUEST_STREAM == {8, 2}
FR_MAX_REQUEST_HEADER_SIZE == {8, 2, 0}
FR_MAX_REQUEST_CONTENT_SIZE == {8, 2, 1}
FR_MAX_INCOMPLETE_REQUEST_TIME == {8, 2, 1, 0}
FixedResponses ==
  {FR_MAX_CLIENTS, FR_MAX_MEMORY, FR_MAX_UTILIZATION, FR_UNKNOWN, FR_REQUEST_INVALID,
   FR_MAX_AVAILABLE_REQUEST_STREAM, FR_MAX_REQUEST_HEADER_SIZE, FR_MAX_REQUEST_CONTENT_SIZE,
   FR_MAX_INCOMPLETE_REQUEST_TIME}

\* What the code raises: EEF_SHUTDOWN_LOG, EEF_CLOSE_LOG, EEF_CLOSE_LOG_DIE,
\* PARTIAL_EEF_DIE, EEF_SEND_SHUTDOWN_LOG(_) and EEF_SEND_CLOSE_LOG(_).
Raised ==
  {[action |-> a, fixed |-> {}] : a \in {{SHUTDOWN, LOG}, {CLOSE, LOG}, {CLOSE, LOG, DIE}, {DIE}}}
  \cup {[action |-> {SEND, SHUTDOWN, LOG}, fixed |-> f] :
          f \in {FR_UNKNOWN, FR_REQUEST_INVALID, FR_MAX_REQUEST_HEADER_SIZE,
                 FR_MAX_REQUEST_CONTENT_SIZE, FR_MAX_INCOMPLETE_REQUEST_TIME}}
  \cup {[action |-> {SEND, CLOSE, LOG}, fixed |-> f] : f \in {FR_UNKNOWN, FR_MAX_AVAILABLE_REQUEST_STREAM}}

Flags(r) == r.action \cup r.fixed

ErrorsAssumption == MaxFrames \in Nat \ {0}

Has(flag) == flag \in flags
FixedOf(bits) == bits \ (0 .. 7)            \* flags & ~0xFF

\* Every protocol has a text for each, and "Unknown error" for the others.
processor_fixed_failsafe(fixed) == IF fixed \in FixedResponses THEN fixed ELSE FR_UNKNOWN

Nothing == [effects |-> {}, messages |-> {}]

Init ==
  /\ pc = "run" /\ live = {} /\ chain = <<>> /\ end = "OK" /\ flags = {}
  /\ cause = 0 /\ raised = [action |-> {}, fixed |-> {}]
  /\ client \in [ssl : BOOLEAN, dead : {FALSE}] /\ done = Nothing

-----------------------------------------------------------------------------
(* The list.                                                               *)

NewMessage(used) == CHOOSE m \in 1 .. MaxFrames : m \notin used

\* An error where there was none; the messages in kept stay allocated.
exerror_internal_allocate(r, kept) ==
  /\ flags' = Flags(r) /\ raised' = r
  /\ \/ \E m \in {NewMessage(kept)} :
          live' = kept \cup {m} /\ chain' = <<m>> /\ end' = "OK" /\ cause' = m
     \/ live' = kept /\ chain' = <<>> /\ end' = "PANIC" /\ cause' = 0
  /\ pc' = "return" /\ done' = Nothing

\* A call made on behalf of the client fails.
Fails(r) ==
  /\ pc = "run" /\ ~client.dead
  /\ exerror_internal_allocate(r, live)
  /\ UNCHANGED client

\* One that cuts the list where it is, without memory.
exerror_internal_allocate_append_cut ==
  /\ pc \in {"return", "die"} /\ Len(chain) < MaxFrames
  /\ \/ live' = live \cup {NewMessage(live)} /\ chain' = <<NewMessage(live)>> \o chain /\ UNCHANGED end
     \/ chain' = SelectSeq(chain, LAMBDA m : m = chain[1]) /\ end' = "PANIC" /\ UNCHANGED live
  /\ UNCHANGED <<pc, flags, cause, raised, client, done>>
\* Without memory the list gets another end.
exerror_internal_allocate_append ==
  /\ pc \in {"return", "die"} /\ Len(chain) < MaxFrames
  /\ \/ live' = live \cup {NewMessage(live)} /\ chain' = <<NewMessage(live)>> \o chain /\ UNCHANGED end
     \/ end' = "PANIC" /\ UNCHANGED <<live, chain>>
  /\ UNCHANGED <<pc, flags, cause, raised, client, done>>

\* error_print looks at error where error_i is meant: it reads the message of
\* the PANIC at the end of a list.
error_print_fails == chain # <<>> /\ end = "PANIC"

\* One that frees the last call's message only.
error_finalize_first == {m \in Range(chain) : m = chain[1]}
error_finalize == Range(chain)

-----------------------------------------------------------------------------
(* The handlers.                                                           *)

Intercepted == client.ssl /\ Has(SHUTDOWN)

Sends == Has(SEND) /\ ~client.ssl

\* One that leaves the shutdown to the interception.
Ends_intercepted == Has(CLOSE)
Ends == Has(SHUTDOWN) \/ Has(CLOSE)

Done(effects) ==
  [effects |-> effects,
   messages |-> IF SEND \in effects THEN {processor_fixed_failsafe(FixedOf(flags))} ELSE {}]

\* The shutdown sends the fixed message, too.
server_process_client_round ==
  /\ pc = "return" /\ Intercepted /\ ~error_print_fails
  /\ client' = [client EXCEPT !.ssl = FALSE]
  /\ done' = Done({SEND, SHUTDOWN, LOG})
  /\ live' = live \ error_finalize /\ chain' = <<>> /\ end' = "OK" /\ pc' = "run"
  /\ UNCHANGED <<flags, cause, raised>>

\* The shutdown fails itself, with the TLS object still there: an error of its
\* own, "sic, not EXPGOTO".
server_process_client_round_recovery ==
  /\ pc = "return" /\ Intercepted /\ ~error_print_fails
  /\ \E a \in {{CLOSE, LOG}, {CLOSE, LOG, DIE}, {DIE}} :
       exerror_internal_allocate([action |-> a, fixed |-> {}], live \ error_finalize)
  /\ UNCHANGED client

server_process_client ==
  /\ pc = "return" /\ ~Intercepted /\ ~(Has(LOG) /\ error_print_fails)
  /\ client' = [client EXCEPT !.dead = Ends, !.ssl = @ /\ ~Ends]
  /\ done' = Done({f \in {SHUTDOWN, CLOSE, LOG, DIE} : Has(f)} \cup (IF Sends THEN {SEND} ELSE {}))
  /\ IF Has(DIE) THEN pc' = "die" /\ UNCHANGED <<live, chain, end>>
     ELSE pc' = "run" /\ live' = live \ error_finalize /\ chain' = <<>> /\ end' = "OK"
  /\ UNCHANGED <<flags, cause, raised>>

common_main ==
  /\ pc = "die" /\ ~error_print_fails
  /\ live' = live \ error_finalize /\ chain' = <<>> /\ end' = "OK" /\ pc' = "exit"
  /\ UNCHANGED <<flags, cause, raised, client, done>>

\* A handler reads address 1.
Crash ==
  /\ pc \in {"return", "die"} /\ (Has(LOG) \/ pc = "die") /\ error_print_fails
  /\ pc' = "crash"
  /\ UNCHANGED <<live, chain, end, flags, cause, raised, client, done>>

\* Another client is visited.
NextClient ==
  /\ pc = "run" /\ client.dead
  /\ client' \in [ssl : BOOLEAN, dead : {FALSE}] /\ done' = Nothing
  /\ UNCHANGED <<pc, live, chain, end, flags, cause, raised>>

Next ==
  \/ \E r \in Raised : Fails(r)
  \/ exerror_internal_allocate_append
  \/ server_process_client_round \/ server_process_client_round_recovery
  \/ server_process_client \/ common_main \/ Crash \/ NextClient

Spec == Init /\ [][Next]_vars

-----------------------------------------------------------------------------
\* The state is what the C declarations allow.
TypeOK ==
  /\ pc \in {"run", "return", "die", "exit", "crash"}
  /\ live \subseteq 1 .. MaxFrames /\ chain \in Seq(1 .. MaxFrames) /\ end \in {"OK", "PANIC"}
  /\ flags \subseteq 0 .. 8 /\ raised \in Raised \cup {[action |-> {}, fixed |-> {}]}
  /\ client \in [ssl : BOOLEAN, dead : BOOLEAN]
  /\ done.effects \subseteq Actions /\ done.messages \subseteq FixedResponses

\* The message of the first failure, once made, stays the last of the list
\* however often memory runs out on the way.
CauseKept == pc \in {"return", "die"} /\ cause # 0 => chain # <<>> /\ Last(chain) = cause

\* Every message is freed once the error was handled, also the first error's
\* when its recovery fails with another one, and none that is still in a list.
AllFreed ==
  IF pc \in {"run", "exit"} THEN live = {} ELSE live = Range(chain)

\* An error never leaves a client as it was: it is closed, its TLS is shut
\* down, or the server ends; and only what was raised as fatal ends it.
NeverIgnored ==
  /\ pc = "run" /\ done # Nothing => client.dead \/ done.effects = {SEND, SHUTDOWN, LOG}
  /\ pc \in {"die", "exit"} => DIE \in raised.action

-----------------------------------------------------------------------------
(* What the repository says and the code does not do: TLC refutes it, see  *)
(* the README, section 5.                                                  *)

\* extended_error.h on enum FixedResponse: "Identifies the fixed message that
\* should be generated fast (does not interfere with ErrorAction)".
NotInterfering ==
  pc = "run" /\ done # Nothing =>
    /\ (CLOSE \in done.effects) = (CLOSE \in raised.action)
    /\ done.messages \subseteq {raised.fixed}

\* error.c: "set it to PANIC for it to print correctly", and error.h on
\* error_print: "guaranteed to succeed".
PrintsCorrectly == pc # "crash"
=============================================================================
