-------------------------- MODULE TradeFileWriter --------------------------
(***************************************************************************)
(* The writer appends one line of JSON per result to a file, through the   *)
(* buffer of a C++ output stream.  The disk may fail, the process may end  *)
(* at any time, and a later process may append to the same file.           *)
(*                                                                         *)
(* The file and the buffer are sequences of tokens: the number of a result *)
(* stands for its JSON text, 0 for the end of a line, and -1 for the first *)
(* part of a text of which the rest is missing.                            *)
(*                                                                         *)
(* A definition whose name starts with Slip is a plausible mistake in the  *)
(* definition that follows it and is used nowhere else.                    *)
(***************************************************************************)
EXTENDS Integers, FiniteSets, SequencesExt

CONSTANTS
  MaxResults,   \* bound: results handed to the writer
  MaxFailures,  \* bound: failures of the disk
  MaxStarts     \* bound: processes that open the file

ASSUME BoundsAssumption == MaxResults \in Nat /\ MaxFailures \in Nat /\ MaxStarts \in Nat

EndOfLine == 0
Fragment  == -1
Tokens    == {Fragment, EndOfLine} \cup 1..MaxResults

VARIABLES
  file,      \* what is in the file
  buffer,    \* what waits in the buffer of file_stream_
  is_open,   \* file_stream_.is_open()
  running,   \* the process is alive
  failures,  \* failures of the disk so far
  starts,    \* processes started so far
  results,   \* results handed to the writer so far, by all processes
  base,      \* history: the file when it was last opened
  since,     \* history: the lines handed over since then
  first,     \* history: the first result of the running process
  announced, \* history: results with a "TradeFileWriter Error"
  unsettled  \* history: in this process a close did not write the buffer, or
             \* a result came while the file was closed

vars == <<file, buffer, is_open, running, failures, starts, results, base,
          since, first, announced, unsettled>>

Init ==
  /\ file = <<>> /\ buffer = <<>> /\ base = <<>> /\ since = <<>>
  /\ is_open = FALSE /\ running = FALSE /\ unsettled = FALSE
  /\ failures = 0 /\ starts = 0 /\ results = 0 /\ first = 1
  /\ announced = {}

-----------------------------------------------------------------------------
(* The output stream.  s is a state [file, buffer, failures, bad] of it;   *)
(* each operator gives the set of the states it may leave.                 *)

\* What a failing attempt to write tokens may leave in the file.
Partial(tokens) ==
  LET whole == {SubSeq(tokens, 1, k) : k \in 0..(Len(tokens) - 1)}
      cut   == {Append(SubSeq(tokens, 1, k - 1), Fragment) :
                  k \in {j \in 1..Len(tokens) : tokens[j] > 0}}
  IN  whole \cup cut

\* The buffer is kept, although a part of it may be in the file.
Fails(s, tokens) ==
  {[s EXCEPT !.file = s.file \o part, !.failures = s.failures + 1, !.bad = TRUE] :
     part \in IF s.failures < MaxFailures THEN Partial(tokens) ELSE {}}

SlipInsert(s, token) ==
  IF s.bad THEN {s}
  ELSE {[s EXCEPT !.buffer = Append(s.buffer, token)],
        [s EXCEPT !.file = Append(s.file, token)],
        [s EXCEPT !.file = s.file \o Append(s.buffer, token), !.buffer = <<>>]}

\* A token fits into the buffer, or it is written behind the buffer's content.
\* A bad stream inserts nothing.
Insert(s, token) ==
  IF s.bad THEN {s}
  ELSE {[s EXCEPT !.buffer = Append(s.buffer, token)],
        [s EXCEPT !.file = s.file \o Append(s.buffer, token), !.buffer = <<>>]}
       \cup Fails(s, Append(s.buffer, token))

SlipInsertLine(s, result) == Insert(s, result)

\* file_stream_ << tick_json.dump() << "\n"
InsertLine(s, result) == UNION {Insert(t, EndOfLine) : t \in Insert(s, result)}

SlipClose(s) == {s}

\* close() tries to write the buffer once more and drops it either way.
Close(s) ==
  IF s.buffer = <<>> THEN {[s EXCEPT !.bad = FALSE]}
  ELSE {[s EXCEPT !.file = s.file \o s.buffer, !.buffer = <<>>, !.bad = FALSE]}
       \cup {[t EXCEPT !.buffer = <<>>] : t \in Fails(s, s.buffer)}

-----------------------------------------------------------------------------
(* The writer.                                                             *)

\* open() in append mode; it may fail.
Open(contents) ==
  /\ is_open' \in BOOLEAN
  /\ base' = contents /\ since' = <<>>

\* The constructor.
TradeFileWriter ==
  /\ ~running /\ starts < MaxStarts
  /\ Open(file)
  /\ running' = TRUE /\ starts' = starts + 1
  /\ first' = results + 1 /\ unsettled' = FALSE
  /\ UNCHANGED <<file, buffer, failures, results, announced>>

written(s) == file' = s.file /\ buffer' = s.buffer /\ failures' = s.failures

SlipRecover(s, result) ==
  /\ written(s) /\ is_open' = TRUE /\ UNCHANGED <<base, unsettled>>
  /\ since' = Append(Append(since, result), EndOfLine)
  /\ announced' = announced \cup {result}

\* A stream that is not good() is closed and opened again.
recover(s, result) ==
  \E t \in Close(s) :
    /\ written(t) /\ Open(t.file)
    /\ unsettled' = (unsettled \/ t.bad)
    /\ announced' = announced \cup {result}

SlipWriteUnchecked(result) ==
  \E s \in InsertLine([file |-> file, buffer |-> buffer, failures |-> failures,
                       bad |-> FALSE], result) :
    /\ written(s) /\ since' = Append(Append(since, result), EndOfLine)
    /\ UNCHANGED <<is_open, base, announced, unsettled>>

writeLine(result) ==
  \E s \in InsertLine([file |-> file, buffer |-> buffer, failures |-> failures,
                       bad |-> FALSE], result) :
    IF s.bad THEN recover(s, result)
    ELSE /\ written(s) /\ since' = Append(Append(since, result), EndOfLine)
         /\ UNCHANGED <<is_open, base, announced, unsettled>>

\* A result that comes while the file is closed is dropped silently.
write(result) ==
  /\ running /\ result <= MaxResults
  /\ results' = result
  /\ \/ is_open /\ writeLine(result)
     \/ /\ ~is_open
        /\ unsettled' = TRUE
        /\ UNCHANGED <<file, buffer, is_open, failures, base, since, announced>>
  /\ UNCHANGED <<running, starts, first>>

\* The process ends without running the destructor: io_context.run() never
\* returns, and an exception that leaves main or a signal terminates.
Terminate ==
  /\ running
  /\ running' = FALSE /\ is_open' = FALSE /\ buffer' = <<>>
  /\ UNCHANGED <<file, failures, starts, results, base, since, first, announced, unsettled>>

Next == TradeFileWriter \/ write(results + 1) \/ Terminate

Spec == Init /\ [][Next]_vars

TypeOK ==
  /\ file \in Seq(Tokens) /\ buffer \in Seq(Tokens)
  /\ base \in Seq(Tokens) /\ since \in Seq(Tokens)
  /\ is_open \in BOOLEAN /\ running \in BOOLEAN /\ unsettled \in BOOLEAN
  /\ failures \in 0..MaxFailures /\ starts \in 0..MaxStarts
  /\ results \in 0..MaxResults /\ first \in 1..(results + 1)
  /\ announced \subseteq 1..results
  /\ is_open => running
  /\ ~is_open => buffer = <<>>

-----------------------------------------------------------------------------
(* Properties.                                                             *)

\* Whatever failed before: an open file, with what waits in the buffer, holds
\* what it held when it was opened, and then every line handed over since,
\* once, whole and in order.
OpenFileIsComplete == is_open => file \o buffer = base \o since

\* A result of the running process that is neither in the file nor in the
\* buffer had its own write reported as failed, unless closing the file
\* failed as well or the file could not be opened again.
LossIsAnnounced ==
  running /\ ~unsettled =>
    \A r \in first..results :
      r \in announced \/ \E i \in DOMAIN (file \o buffer) : (file \o buffer)[i] = r

\* Texts that do not start on a line of their own.
Glued == {i \in DOMAIN file : i > 1 /\ file[i] # EndOfLine /\ file[i - 1] # EndOfLine}

\* A failure of the disk spoils at most two lines, and the end of a process
\* at most one.
DamageIsBounded == starts > 0 => Cardinality(Glued) <= 2 * failures + (starts - 1)

\* trade_file_writer.h: "Inserts the following comma separated details per
\* tick on a new line".
EveryTickOnNewLine == Glued = {}
=============================================================================
