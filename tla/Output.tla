------------------------------- MODULE Output -------------------------------
(***************************************************************************)
(* The log files (source/output.c): a directory with one file for each     *)
(* day, or several when a day's file grows too large, and g_logs, a list   *)
(* of them kept in memory from which the files to delete are chosen by     *)
(* number, total size and age (include/constants.h, "Logging").            *)
(*                                                                         *)
(* A file is named by its day and number.  The text of the messages is     *)
(* left out, only its length counts.  Every message is printed between an  *)
(* output_open and an output_close, and these pairs are never nested       *)
(* (error_print, server_send_failsafe, server_main).                       *)
(***************************************************************************)
EXTENDS Integers, Sequences, SequencesExt, FiniteSets

CONSTANTS
  MAX_TOTAL_LOG_NUMBER, MAX_TOTAL_LOG_SIZE, MAX_LOG_AGE, MAX_LOG_SIZE,
  DAY,
  Directories,     \* what the directory may hold before the first start
  Lengths,         \* the lengths of the messages
  MaxTime,         \* bound: the clock
  MaxOpenSize      \* bound: the total size of the logs while one is open

VARIABLES
  now,                  \* time(NULL)
  disk,                 \* the directory: sizes by name
  pc,                   \* "down", "reading" or "up"
  entries,              \* what readdir has not yet returned
  g_logs, g_logs_total_size, g_catastrophic,
  g_file,               \* the name of the open file, or None
  buffered              \* what vfprintf has not yet given to the file

memory == <<g_logs, g_logs_total_size, g_catastrophic, g_file, buffered>>
vars == <<now, disk, pc, entries, memory>>

None == <<>>
Wild == <<-1, 0>>       \* what g_logs[-1].path would be

Names == {f \in (0 .. MaxTime) \X Nat : f[1] % DAY = 0}

OutputAssumption ==
  /\ MAX_TOTAL_LOG_NUMBER \in Nat \ {0, 1} /\ MAX_TOTAL_LOG_SIZE \in Nat
  /\ DAY \in Nat \ {0} /\ MAX_LOG_AGE \in Nat /\ MAX_LOG_AGE >= DAY
  /\ MAX_LOG_SIZE \in Nat /\ MAX_LOG_SIZE < MAX_TOTAL_LOG_SIZE
  /\ \A d \in Directories : DOMAIN d \subseteq Names /\ \A f \in DOMAIN d : d[f] \in Nat
  /\ Lengths \subseteq Nat /\ MaxTime \in Nat /\ MaxOpenSize \in Nat

-----------------------------------------------------------------------------
(***************************************************************************)
(* The list.  A list state is a record of logs, total and disk, what       *)
(* delete, cleanup and insert work on.                                     *)
(***************************************************************************)
start(t) == t - (t % DAY)

Name(log) == <<log.global_start, log.number>>
Listed == [logs |-> g_logs, total |-> g_logs_total_size, disk |-> disk]
Unlink(d, names) == [f \in DOMAIN d \ names |-> d[f]]
SizeOf(logs) ==
  LET sum[n \in 0 .. Len(logs)] == IF n = 0 THEN 0 ELSE sum[n - 1] + logs[n].size
  IN sum[Len(logs)]

\* One that forgets to count the deleted files.
delete_uncounted(s, n) ==
  [s EXCEPT !.logs = SubSeq(@, n + 1, Len(@)),
            !.disk = Unlink(@, {Name(s.logs[i]) : i \in 1 .. n})]
delete(s, n) ==
  [logs  |-> SubSeq(s.logs, n + 1, Len(s.logs)),
   total |-> s.total - SizeOf(SubSeq(s.logs, 1, n)),
   disk  |-> Unlink(s.disk, {Name(s.logs[i]) : i \in 1 .. n})]

\* One that subtracts the wrong way round, in an unsigned type.
ShouldDelete_wrapped(s, i, t) ==
  \/ (s.logs[i].global_start - t) % 65536 > MAX_LOG_AGE
  \/ s.total - SizeOf(SubSeq(s.logs, 1, i - 1)) > MAX_TOTAL_LOG_SIZE
\* Log number i goes, when those before it have gone.
ShouldDelete(s, i, t) ==
  \/ t - s.logs[i].global_start > MAX_LOG_AGE
  \/ s.total - SizeOf(SubSeq(s.logs, 1, i - 1)) > MAX_TOTAL_LOG_SIZE

cleanup(s, t) ==
  LET n == CHOOSE k \in 0 .. Len(s.logs) :
             /\ \A i \in 1 .. k : ShouldDelete(s, i, t)
             /\ k < Len(s.logs) => ~ShouldDelete(s, k + 1, t)
  IN delete(s, n)

Newer(log, other) ==
  \/ log.global_start > other.global_start
  \/ log.global_start = other.global_start /\ log.number > other.number

\* The number of logs that stay in front of the new one: it passes, from the
\* end, all those that it is newer than.
Place(logs, log) ==
  CHOOSE k \in 0 .. Len(logs) :
    /\ \A i \in k + 1 .. Len(logs) : Newer(log, logs[i])
    /\ k > 0 => ~Newer(log, logs[k])

\* One that leaves the file of a log that it refuses.
insert_forgotten(s, log, t) ==
  LET place == Place(s.logs, log)
      full == Len(s.logs) = MAX_TOTAL_LOG_NUMBER
      room == IF full THEN delete(s, 1) ELSE s
      i == IF full THEN place ELSE place + 1
  IN IF full /\ place = 0
     THEN s
     ELSE cleanup([room EXCEPT !.logs = InsertAt(@, i, log), !.total = @ + log.size], t)
insert(s, log, t) ==
  LET place == Place(s.logs, log)
      full == Len(s.logs) = MAX_TOTAL_LOG_NUMBER
      room == IF full THEN delete(s, 1) ELSE s
      i == IF full THEN place ELSE place + 1
  IN IF full /\ place = 0
     THEN [s EXCEPT !.disk = Unlink(@, {Name(log)})]
     ELSE cleanup([room EXCEPT !.logs = InsertAt(@, i, log), !.total = @ + log.size], t)

Become(s) == g_logs' = s.logs /\ g_logs_total_size' = s.total /\ disk' = s.disk

-----------------------------------------------------------------------------
(* The process starts, reads the directory in any order, and ends.         *)

Init ==
  /\ now \in 0 .. MaxTime /\ disk \in Directories
  /\ \A f \in DOMAIN disk : f[1] <= now
  /\ pc = "down" /\ entries = {}
  /\ g_logs = <<>> /\ g_logs_total_size = 0 /\ g_catastrophic = FALSE
  /\ g_file = None /\ buffered = 0

Start ==
  /\ pc = "down"
  /\ \/ pc' = "reading" /\ entries' = DOMAIN disk /\ g_catastrophic' = FALSE
     \/ pc' = "up" /\ entries' = {} /\ g_catastrophic' = TRUE   \* opendir fails
  /\ UNCHANGED <<now, disk, g_logs, g_logs_total_size, g_file, buffered>>

\* A number in the name is never read: the extension must be "log" to the end.
Skipped(f) == f[1] > start(now) \/ f[2] > 0

ReadEntry(f) ==
  /\ pc = "reading" /\ f \in entries
  /\ entries' = entries \ {f}
  /\ IF Skipped(f)
     THEN UNCHANGED <<disk, g_logs, g_logs_total_size>>
     ELSE Become(insert(Listed, [global_start |-> f[1], number |-> 0, size |-> disk[f]], now))
  /\ UNCHANGED <<now, pc, g_catastrophic, g_file, buffered>>

\* Somebody else has removed the file: stat() fails.
ReadRemoved(f) ==
  /\ pc = "reading" /\ f \in entries /\ ~Skipped(f)
  /\ entries' = entries \ {f} /\ disk' = Unlink(disk, {f})
  /\ UNCHANGED <<now, pc, memory>>

ReadFails ==                               \* out of memory
  /\ pc = "reading" /\ \E f \in entries : ~Skipped(f)
  /\ pc' = "up" /\ entries' = {} /\ g_catastrophic' = TRUE
  /\ UNCHANGED <<now, disk, g_logs, g_logs_total_size, g_file, buffered>>

ReadEnds ==
  /\ pc = "reading" /\ entries = {}
  /\ pc' = "up"
  /\ UNCHANGED <<now, disk, entries, memory>>

\* What reaches the file when the process ends: all of it, or, after a
\* crash, what happened to be written.
Written(n) == IF g_file \in DOMAIN disk THEN [disk EXCEPT ![g_file] = @ + n] ELSE disk

Exit(written) ==
  /\ pc' = "down" /\ entries' = {} /\ disk' = Written(written)
  /\ g_logs' = <<>> /\ g_logs_total_size' = 0 /\ g_catastrophic' = FALSE
  /\ g_file' = None /\ buffered' = 0
  /\ UNCHANGED now

output_module_finalize == pc = "up" /\ (g_file = None \/ g_catastrophic) /\ Exit(buffered)

Crash == pc # "down" /\ \E n \in 0 .. buffered : Exit(n)

-----------------------------------------------------------------------------
(* The messages.                                                           *)

Usable == pc = "up" /\ ~g_catastrophic

\* The number of the log that output_open creates, or -1 for none.
NewNumber ==
  IF g_logs = <<>> \/ Last(g_logs).global_start # start(now) THEN 0
  ELSE IF Last(g_logs).size > MAX_LOG_SIZE THEN Last(g_logs).number + 1
  ELSE -1

OpenedList ==
  IF NewNumber = -1 THEN Listed
  ELSE insert(Listed, [global_start |-> start(now), number |-> NewNumber, size |-> 0], now)

output_open ==
  /\ Usable /\ g_file = None
  /\ LET s == OpenedList
         path == IF s.logs = <<>> THEN Wild ELSE Name(Last(s.logs))
     IN /\ g_logs' = s.logs /\ g_logs_total_size' = s.total
        /\ \/ /\ g_file' = path
              /\ disk' = IF path \in DOMAIN s.disk \cup {Wild} THEN s.disk
                         ELSE [f \in DOMAIN s.disk \cup {path} |-> IF f = path THEN 0 ELSE s.disk[f]]
              /\ UNCHANGED g_catastrophic
           \/ g_catastrophic' = TRUE /\ disk' = s.disk /\ UNCHANGED g_file  \* fopen fails
  /\ UNCHANGED <<now, pc, entries, buffered>>

output_open_fails ==                       \* out of memory
  /\ Usable /\ g_file = None /\ NewNumber # -1
  /\ g_catastrophic' = TRUE
  /\ UNCHANGED <<now, disk, pc, entries, g_logs, g_logs_total_size, g_file, buffered>>

output_vprint(n) ==
  /\ Usable /\ g_file # None /\ g_logs_total_size + n <= MaxOpenSize
  /\ buffered' = buffered + n
  /\ g_logs' = [g_logs EXCEPT ![Len(g_logs)].size = @ + n]
  /\ g_logs_total_size' = g_logs_total_size + n
  /\ UNCHANGED <<now, disk, pc, entries, g_catastrophic, g_file>>

output_vprint_fails ==                     \* what was buffered may be lost
  /\ Usable /\ g_file # None
  /\ g_catastrophic' = TRUE
  /\ UNCHANGED <<now, disk, pc, entries, g_logs, g_logs_total_size, g_file, buffered>>

\* One that leaves the limits to the next insertion.
output_close_late ==
  /\ Usable /\ g_file # None
  /\ disk' = Written(buffered) /\ g_file' = None /\ buffered' = 0
  /\ UNCHANGED <<now, pc, entries, g_logs, g_logs_total_size, g_catastrophic>>
output_close ==
  /\ Usable /\ g_file # None
  /\ Become(cleanup([Listed EXCEPT !.disk = Written(buffered)], now))
  /\ g_file' = None /\ buffered' = 0
  /\ UNCHANGED <<now, pc, entries, g_catastrophic>>

Tick ==
  /\ now < MaxTime /\ now' = now + 1
  /\ UNCHANGED <<disk, pc, entries, memory>>

Next ==
  \/ Start \/ ReadFails \/ ReadEnds \/ output_module_finalize \/ Crash
  \/ \E f \in entries : ReadEntry(f) \/ ReadRemoved(f)
  \/ output_open \/ output_open_fails \/ output_vprint_fails \/ output_close
  \/ \E n \in Lengths : output_vprint(n)
  \/ Tick

Spec == Init /\ [][Next]_vars

-----------------------------------------------------------------------------
\* The state is what the C declarations allow.
TypeOK ==
  /\ now \in 0 .. MaxTime
  /\ DOMAIN disk \subseteq Names /\ \A f \in DOMAIN disk : disk[f] \in Nat
  /\ pc \in {"down", "reading", "up"} /\ entries \subseteq DOMAIN disk
  /\ g_logs \in Seq([global_start : 0 .. MaxTime, number : Nat, size : Nat])
  /\ g_logs_total_size \in Nat /\ g_catastrophic \in BOOLEAN
  /\ g_file \in Names \cup {None, Wild} /\ buffered \in Nat

\* g_logs_total_size, an unsigned number that six places add to or subtract
\* from, is the sum of the sizes of the listed logs.
TotalIsSum == g_logs_total_size = SizeOf(g_logs)

\* Between two messages the list keeps the limits 1 and 2 of constants.h,
\* whatever the directory held and however long the last message was.
WithinLimits ==
  pc # "down" /\ g_file = None =>
    Len(g_logs) <= MAX_TOTAL_LOG_NUMBER /\ g_logs_total_size <= MAX_TOTAL_LOG_SIZE

\* output_open inserts, and the cleanup that ends an insertion may delete any
\* log: the list is never empty when g_logs[g_logs_size - 1] is opened, and
\* the open file is still the last of the list when a message is counted.
OpenIsLast == g_file # None => g_logs # <<>> /\ g_file = Name(Last(g_logs))

\* No file escapes the limits: a log that the program can read is listed as
\* soon as the directory has been read.
NothingOrphaned ==
  Usable => \A f \in DOMAIN disk : f[2] = 0 => \E i \in DOMAIN g_logs : Name(g_logs[i]) = f

-----------------------------------------------------------------------------
(* What the repository says and the code does not do: TLC refutes it, see  *)
(* the README, section 5.                                                  *)

\* The comment on g_logs: "Array of logs, oldest first".
OldestFirst ==
  \A i, j \in DOMAIN g_logs : i < j => ~Newer(g_logs[i], g_logs[j])

\* Rule 3 of constants.h, "Delete log if it is older than certain time", at
\* each of its occasions: no log is too old when output_close returns.
AgedDeleted ==
  [][output_close => \A i \in DOMAIN g_logs' : now - g_logs'[i].global_start <= MAX_LOG_AGE]_vars
=============================================================================
