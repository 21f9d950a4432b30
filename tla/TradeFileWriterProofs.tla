----------------------- MODULE TradeFileWriterProofs -----------------------
(***************************************************************************)
(* Proofs for the writer: the types, and that an open file is complete.    *)
(* The two are inductive together: a stream that did not go bad has added  *)
(* the token to its file and buffer (InsertAppends), and a stream that did *)
(* is closed, after which the file is a new base (CloseEmpties).           *)
(***************************************************************************)
EXTENDS TradeFileWriter, SequenceTheorems, FiniteSetTheorems, TLAPS

StreamState == [file : Seq(Tokens), buffer : Seq(Tokens),
                failures : 0..MaxFailures, bad : BOOLEAN]

IInv == TypeOK /\ OpenFileIsComplete

-----------------------------------------------------------------------------
(* The output stream.                                                      *)

LEMMA PartialType ==
  ASSUME NEW tokens \in Seq(Tokens)
  PROVE  Partial(tokens) \subseteq Seq(Tokens)
<1>1. ASSUME NEW k \in 0..Len(tokens) PROVE SubSeq(tokens, 1, k) \in Seq(Tokens)
  <2>1. k \in Int /\ \A i \in 1..k : tokens[i] \in Tokens
    BY LenProperties, ElementOfSeq
  <2> QED BY <2>1, SubSeqProperties
<1>2. ASSUME NEW k \in 0..(Len(tokens) - 1) PROVE SubSeq(tokens, 1, k) \in Seq(Tokens)
  BY <1>1, LenProperties
<1>3. ASSUME NEW k \in 1..Len(tokens)
      PROVE  Append(SubSeq(tokens, 1, k - 1), Fragment) \in Seq(Tokens)
  <2>1. k - 1 \in 0..Len(tokens)
    BY LenProperties
  <2> QED BY <1>1, <2>1 DEF Tokens
<1> QED BY <1>2, <1>3 DEF Partial

LEMMA FailsKeepsBuffer ==
  ASSUME NEW s \in StreamState, NEW tokens \in Seq(Tokens), NEW t \in Fails(s, tokens)
  PROVE  t \in StreamState /\ t.bad /\ t.buffer = s.buffer
<1>1. s.failures < MaxFailures
  BY DEF Fails
<1>2. PICK part \in Partial(tokens) :
        t = [s EXCEPT !.file = s.file \o part, !.failures = s.failures + 1, !.bad = TRUE]
  BY <1>1 DEF Fails
<1>3. s.file \o part \in Seq(Tokens)
  BY PartialType, ConcatProperties DEF StreamState
<1>4. s.failures + 1 \in 0..MaxFailures
  BY <1>1, BoundsAssumption DEF StreamState
<1> QED BY <1>2, <1>3, <1>4 DEF StreamState

LEMMA AppendBehind ==
  ASSUME NEW s \in Seq(Tokens), NEW t \in Seq(Tokens), NEW token \in Tokens
  PROVE  /\ s \o t \in Seq(Tokens)
         /\ Append(t, token) \in Seq(Tokens)
         /\ s \o Append(t, token) = Append(s \o t, token)
<1>1. s \o t \in Seq(Tokens) /\ <<token>> \in Seq(Tokens)
  BY ConcatProperties
<1>2. (s \o t) \o <<token>> = s \o (t \o <<token>>)
  BY <1>1, ConcatAssociative
<1>3. t \o <<token>> = Append(t, token)
  BY AppendIsConcat
<1>4. (s \o t) \o <<token>> = Append(s \o t, token)
  BY <1>1, AppendIsConcat
<1> QED BY <1>1, <1>2, <1>3, <1>4, AppendProperties

\* A stream that is good after an insertion was good before it, and has the
\* token behind everything it had.
LEMMA InsertAppends ==
  ASSUME NEW s \in StreamState, NEW token \in Tokens, NEW t \in Insert(s, token)
  PROVE  /\ t \in StreamState
         /\ ~t.bad => ~s.bad /\ t.file \o t.buffer = Append(s.file \o s.buffer, token)
<1> DEFINE line == Append(s.buffer, token)
<1>1. s.file \in Seq(Tokens) /\ s.buffer \in Seq(Tokens)
  BY DEF StreamState
<1>2. line \in Seq(Tokens) /\ s.file \o line = Append(s.file \o s.buffer, token)
  BY <1>1, AppendBehind
<1>3. s.file \o line \in Seq(Tokens)
  BY <1>1, <1>2, ConcatProperties
<1>4. CASE s.bad
  BY <1>4 DEF Insert
<1>5. CASE t = [s EXCEPT !.buffer = line] /\ ~s.bad
  <2>1. t \in StreamState /\ t.file = s.file /\ t.buffer = line
    BY <1>2, <1>5 DEF StreamState
  <2> QED BY <1>2, <1>5, <2>1
<1>6. CASE t = [s EXCEPT !.file = s.file \o line, !.buffer = <<>>] /\ ~s.bad
  <2>1. t \in StreamState /\ t.file = s.file \o line /\ t.buffer = <<>>
    BY <1>3, <1>6, EmptySeq DEF StreamState
  <2>2. t.file \o t.buffer = s.file \o line
    BY <1>3, <2>1, ConcatEmptySeq
  <2> QED BY <1>2, <1>6, <2>1, <2>2
<1>7. CASE t \in Fails(s, line)
  BY <1>2, <1>7, FailsKeepsBuffer
<1> QED BY <1>4, <1>5, <1>6, <1>7 DEF Insert

LEMMA InsertLineAppends ==
  ASSUME NEW s \in StreamState, NEW result \in 1..MaxResults,
         NEW t \in InsertLine(s, result)
  PROVE  /\ t \in StreamState
         /\ ~t.bad => t.file \o t.buffer
                        = Append(Append(s.file \o s.buffer, result), EndOfLine)
<1>1. PICK m \in Insert(s, result) : t \in Insert(m, EndOfLine)
  BY DEF InsertLine
<1>2. result \in Tokens /\ EndOfLine \in Tokens
  BY DEF Tokens
<1>3. /\ m \in StreamState
      /\ ~m.bad => m.file \o m.buffer = Append(s.file \o s.buffer, result)
  BY <1>2, InsertAppends
<1>4. /\ t \in StreamState
      /\ ~t.bad => ~m.bad /\ t.file \o t.buffer = Append(m.file \o m.buffer, EndOfLine)
  BY <1>1, <1>2, <1>3, InsertAppends
<1> QED BY <1>3, <1>4

LEMMA CloseEmpties ==
  ASSUME NEW s \in StreamState, NEW t \in Close(s)
  PROVE  t \in StreamState /\ t.buffer = <<>>
<1>1. s.file \o s.buffer \in Seq(Tokens) /\ <<>> \in Seq(Tokens)
  BY ConcatProperties, EmptySeq DEF StreamState
<1>2. CASE t = [s EXCEPT !.bad = FALSE] /\ s.buffer = <<>>
  BY <1>2 DEF StreamState
<1>3. CASE t = [s EXCEPT !.file = s.file \o s.buffer, !.buffer = <<>>, !.bad = FALSE]
  BY <1>1, <1>3 DEF StreamState
<1>4. ASSUME NEW m \in Fails(s, s.buffer), t = [m EXCEPT !.buffer = <<>>]
      PROVE  t \in StreamState /\ t.buffer = <<>>
  <2>1. m \in StreamState
    BY FailsKeepsBuffer DEF StreamState
  <2> QED BY <1>1, <1>4, <2>1 DEF StreamState
<1> QED BY <1>2, <1>3, <1>4 DEF Close

-----------------------------------------------------------------------------
(* The steps.                                                              *)

LEMMA InitIInv == Init => IInv
<1> SUFFICES ASSUME Init PROVE IInv
  OBVIOUS
<1>1. <<>> \in Seq(Tokens)
  BY EmptySeq
<1>2. announced \subseteq 1..results
  BY DEF Init
<1>3. 0 \in 0..MaxFailures /\ 0 \in 0..MaxStarts /\ 0 \in 0..MaxResults /\ 1 \in 1..(0 + 1)
  BY BoundsAssumption
<1>4. TypeOK
  BY <1>1, <1>2, <1>3 DEF Init, TypeOK
<1> QED BY <1>4 DEF Init, IInv, OpenFileIsComplete

\* A file that was just opened is its own base.
LEMMA OpenIsComplete ==
  ASSUME NEW contents \in Seq(Tokens), Open(contents), file' = contents, buffer' = <<>>
  PROVE  /\ is_open' \in BOOLEAN /\ base' \in Seq(Tokens) /\ since' \in Seq(Tokens)
         /\ OpenFileIsComplete'
<1>1. is_open' \in BOOLEAN /\ base' = contents /\ since' = <<>>
  BY DEF Open
<1>2. <<>> \in Seq(Tokens)
  BY EmptySeq
<1> QED BY <1>1, <1>2 DEF OpenFileIsComplete

LEMMA StartIInv == IInv /\ TradeFileWriter => IInv'
<1> SUFFICES ASSUME IInv, TradeFileWriter PROVE IInv'
  OBVIOUS
<1>1. file' = file /\ buffer' = <<>> /\ file \in Seq(Tokens)
  BY DEF IInv, TypeOK, TradeFileWriter
<1>2. /\ is_open' \in BOOLEAN /\ base' \in Seq(Tokens) /\ since' \in Seq(Tokens)
      /\ OpenFileIsComplete'
  BY <1>1, OpenIsComplete DEF TradeFileWriter
<1>3. starts' \in 0..MaxStarts /\ first' \in 1..(results' + 1)
  BY BoundsAssumption DEF IInv, TypeOK, TradeFileWriter
<1>4. TypeOK'
  BY <1>1, <1>2, <1>3, EmptySeq DEF IInv, TypeOK, TradeFileWriter
<1> QED BY <1>2, <1>4 DEF IInv

LEMMA WriteLineIInv ==
  ASSUME IInv, is_open, NEW result \in 1..MaxResults, writeLine(result)
  PROVE  /\ file' \in Seq(Tokens) /\ buffer' \in Seq(Tokens)
         /\ base' \in Seq(Tokens) /\ since' \in Seq(Tokens)
         /\ is_open' \in BOOLEAN /\ unsettled' \in BOOLEAN
         /\ failures' \in 0..MaxFailures
         /\ announced' \subseteq announced \cup {result}
         /\ ~is_open' => buffer' = <<>>
         /\ OpenFileIsComplete'
<1> DEFINE before == [file |-> file, buffer |-> buffer, failures |-> failures, bad |-> FALSE]
<1>1. before \in StreamState
  BY DEF IInv, TypeOK, StreamState
<1>2. PICK s \in InsertLine(before, result) :
        IF s.bad THEN recover(s, result)
        ELSE /\ written(s) /\ since' = Append(Append(since, result), EndOfLine)
             /\ UNCHANGED <<is_open, base, announced, unsettled>>
  BY DEF writeLine
<1> HIDE DEF before
<1>3. /\ s \in StreamState
      /\ ~s.bad => s.file \o s.buffer
                     = Append(Append(before.file \o before.buffer, result), EndOfLine)
  BY <1>1, <1>2, InsertLineAppends
<1>4. CASE ~s.bad
  <2>1. /\ file' = s.file /\ buffer' = s.buffer /\ failures' = s.failures
        /\ since' = Append(Append(since, result), EndOfLine)
        /\ UNCHANGED <<is_open, base, announced, unsettled>>
    BY <1>2, <1>4 DEF written
  <2>2. before.file \o before.buffer = base \o since
    BY DEF before, IInv, OpenFileIsComplete
  <2>3. result \in Tokens /\ EndOfLine \in Tokens
    BY DEF Tokens
  <2>4. base \in Seq(Tokens) /\ since \in Seq(Tokens)
    BY DEF IInv, TypeOK
  <2>5. /\ Append(since, result) \in Seq(Tokens)
        /\ base \o Append(since, result) = Append(base \o since, result)
    BY <2>3, <2>4, AppendBehind
  <2>6. /\ since' \in Seq(Tokens)
        /\ base \o since' = Append(Append(base \o since, result), EndOfLine)
    <3> DEFINE text == Append(since, result)
    <3>1. text \in Seq(Tokens) /\ base \o text = Append(base \o since, result)
      BY <2>5
    <3> HIDE DEF text
    <3>2. /\ Append(text, EndOfLine) \in Seq(Tokens)
          /\ base \o Append(text, EndOfLine) = Append(base \o text, EndOfLine)
      BY <2>3, <2>4, <3>1, AppendBehind
    <3>3. since' = Append(text, EndOfLine)
      BY <2>1 DEF text
    <3> QED BY <3>1, <3>2, <3>3
  <2>7. OpenFileIsComplete'
    BY <1>3, <1>4, <2>1, <2>2, <2>6 DEF OpenFileIsComplete
  <2> QED BY <1>3, <2>1, <2>4, <2>6, <2>7 DEF StreamState, IInv, TypeOK
<1>5. CASE s.bad
  <2>1. PICK t \in Close(s) :
          /\ written(t) /\ Open(t.file)
          /\ unsettled' = (unsettled \/ t.bad)
          /\ announced' = announced \cup {result}
    BY <1>2, <1>5 DEF recover
  <2>2. t \in StreamState /\ t.buffer = <<>>
    BY <1>3, CloseEmpties
  <2>3. file' = t.file /\ buffer' = <<>> /\ failures' = t.failures /\ t.file \in Seq(Tokens)
    BY <2>1, <2>2 DEF written, StreamState
  <2>4. /\ is_open' \in BOOLEAN /\ base' \in Seq(Tokens) /\ since' \in Seq(Tokens)
        /\ OpenFileIsComplete'
    BY <2>1, <2>3, OpenIsComplete
  <2> QED BY <2>1, <2>2, <2>3, <2>4, EmptySeq DEF StreamState
<1> QED BY <1>4, <1>5

LEMMA WriteIInv == IInv /\ write(results + 1) => IInv'
<1> SUFFICES ASSUME IInv, write(results + 1) PROVE IInv'
  OBVIOUS
<1>1. /\ results' = results + 1 /\ results + 1 \in 1..MaxResults
      /\ running /\ running' = running /\ starts' = starts /\ first' = first
  BY BoundsAssumption DEF IInv, TypeOK, write
<1>2. /\ results' \in 0..MaxResults /\ first' \in 1..(results' + 1)
      /\ announced \cup {results + 1} \subseteq 1..results'
  BY <1>1 DEF IInv, TypeOK
<1>3. CASE is_open
  <2>1. writeLine(results + 1)
    BY <1>3 DEF write
  <2>2. /\ file' \in Seq(Tokens) /\ buffer' \in Seq(Tokens)
        /\ base' \in Seq(Tokens) /\ since' \in Seq(Tokens)
        /\ is_open' \in BOOLEAN /\ unsettled' \in BOOLEAN
        /\ failures' \in 0..MaxFailures
        /\ announced' \subseteq announced \cup {results + 1}
        /\ ~is_open' => buffer' = <<>>
        /\ OpenFileIsComplete'
    BY <1>1, <1>3, <2>1, WriteLineIInv
  <2>3. TypeOK'
    BY <1>1, <1>2, <2>2 DEF IInv, TypeOK
  <2> QED BY <2>2, <2>3 DEF IInv
<1>4. CASE ~is_open
  <2>1. /\ unsettled' = TRUE
        /\ UNCHANGED <<file, buffer, is_open, failures, base, since, announced>>
    BY <1>4 DEF write
  <2>2. announced \subseteq 1..results'
    BY <1>2
  <2> QED BY <1>1, <1>2, <1>4, <2>1, <2>2 DEF IInv, TypeOK, OpenFileIsComplete
<1> QED BY <1>3, <1>4

LEMMA TerminateIInv == IInv /\ Terminate => IInv'
BY EmptySeq DEF IInv, TypeOK, OpenFileIsComplete, Terminate

THEOREM Invariance == Spec => []IInv
<1>1. IInv /\ [Next]_vars => IInv'
  <2>1. IInv /\ UNCHANGED vars => IInv'
    <3> SUFFICES ASSUME IInv, UNCHANGED vars PROVE IInv'
      OBVIOUS
    <3>1. TypeOK'
      BY DEF IInv, TypeOK, vars
    <3>2. OpenFileIsComplete'
      BY DEF IInv, OpenFileIsComplete, vars
    <3> QED BY <3>1, <3>2 DEF IInv
  <2> QED BY <2>1, StartIInv, WriteIInv, TerminateIInv DEF Next
<1> QED BY <1>1, InitIInv, PTL DEF Spec

\* Type correctness of the writer.
THEOREM TypeCorrect == Spec => []TypeOK
<1>1. IInv => TypeOK
  BY DEF IInv
<1> QED BY <1>1, Invariance, PTL

\* For any number of results, failures of the disk and processes: an open
\* file is complete.
THEOREM NoLineLostWhileOpen == Spec => []OpenFileIsComplete
<1>1. IInv => OpenFileIsComplete
  BY DEF IInv
<1> QED BY <1>1, Invariance, PTL

-----------------------------------------------------------------------------
(* Losses.                                                                 *)

Found(tokens, r) == \E i \in DOMAIN tokens : tokens[i] = r

\* What is in the file or the buffer of s is in those of t.
Keeps(s, t) == \A r : Found(s.file \o s.buffer, r) => Found(t.file \o t.buffer, r)

LEMMA FoundInConcat ==
  ASSUME NEW s \in Seq(Tokens), NEW t \in Seq(Tokens), NEW r
  PROVE  Found(s \o t, r) <=> Found(s, r) \/ Found(t, r)
<1>1. /\ Len(s) \in Nat /\ Len(t) \in Nat
      /\ DOMAIN s = 1..Len(s) /\ DOMAIN t = 1..Len(t)
  BY LenProperties
<1>2. /\ s \o t \in Seq(Tokens) /\ Len(s \o t) = Len(s) + Len(t)
      /\ \A i \in 1..(Len(s) + Len(t)) :
           (s \o t)[i] = IF i <= Len(s) THEN s[i] ELSE t[i - Len(s)]
  BY ConcatProperties
<1> DEFINE u == s \o t
<1> HIDE DEF u
<1>3. /\ DOMAIN u = 1..(Len(s) + Len(t))
      /\ \A i \in 1..(Len(s) + Len(t)) : u[i] = IF i <= Len(s) THEN s[i] ELSE t[i - Len(s)]
  BY <1>2, LenProperties DEF u
<1>4. ASSUME NEW i \in DOMAIN s, s[i] = r PROVE Found(u, r)
  <2>1. i \in DOMAIN u /\ u[i] = r
    BY <1>1, <1>3, <1>4
  <2> QED BY <2>1 DEF Found
<1>5. ASSUME NEW i \in DOMAIN t, t[i] = r PROVE Found(u, r)
  <2>1. /\ i + Len(s) \in 1..(Len(s) + Len(t))
        /\ ~(i + Len(s) <= Len(s)) /\ (i + Len(s)) - Len(s) = i
    BY <1>1
  <2>2. i + Len(s) \in DOMAIN u /\ u[i + Len(s)] = r
    BY <1>3, <1>5, <2>1
  <2> QED BY <2>2 DEF Found
<1>6. ASSUME NEW i \in DOMAIN u, u[i] = r PROVE Found(s, r) \/ Found(t, r)
  <2>1. CASE i <= Len(s)
    <3>1. i \in DOMAIN s /\ s[i] = r
      BY <1>1, <1>3, <1>6, <2>1
    <3> QED BY <3>1 DEF Found
  <2>2. CASE ~(i <= Len(s))
    <3>1. i - Len(s) \in DOMAIN t /\ t[i - Len(s)] = r
      BY <1>1, <1>3, <1>6, <2>2
    <3> QED BY <3>1 DEF Found
  <2> QED BY <2>1, <2>2
<1> QED BY <1>4, <1>5, <1>6 DEF Found, u

LEMMA FoundInAppend ==
  ASSUME NEW s \in Seq(Tokens), NEW token \in Tokens, NEW r
  PROVE  Found(Append(s, token), r) <=> Found(s, r) \/ r = token
<1>1. Append(s, token) = s \o <<token>> /\ <<token>> \in Seq(Tokens)
  BY AppendIsConcat
<1>2. DOMAIN <<token>> = {1} /\ <<token>>[1] = token
  OBVIOUS
<1> QED BY <1>1, <1>2, FoundInConcat DEF Found

\* A failing attempt leaves what was there before in front.
LEMMA FailsKeeps ==
  ASSUME NEW s \in StreamState, NEW tokens \in Seq(Tokens), NEW t \in Fails(s, tokens)
  PROVE  Keeps(s, t)
<1>1. PICK part \in Partial(tokens) :
        t = [s EXCEPT !.file = s.file \o part, !.failures = s.failures + 1, !.bad = TRUE]
  BY DEF Fails
<1>2. s.file \in Seq(Tokens) /\ s.buffer \in Seq(Tokens) /\ part \in Seq(Tokens)
  BY PartialType DEF StreamState
<1>3. t.file = s.file \o part /\ t.buffer = s.buffer /\ t.file \in Seq(Tokens)
  BY <1>1, <1>2, ConcatProperties DEF StreamState
<1>4. ASSUME NEW r, Found(s.file \o s.buffer, r) PROVE Found(t.file \o t.buffer, r)
  <2>1. Found(s.file, r) \/ Found(s.buffer, r)
    BY <1>2, <1>4, FoundInConcat
  <2>2. Found(t.file, r) \/ Found(t.buffer, r)
    BY <1>2, <1>3, <2>1, FoundInConcat
  <2> QED BY <1>2, <1>3, <2>2, FoundInConcat
<1> QED BY <1>4 DEF Keeps

LEMMA InsertKeeps ==
  ASSUME NEW s \in StreamState, NEW token \in Tokens, NEW t \in Insert(s, token)
  PROVE  Keeps(s, t)
<1>1. s.file \in Seq(Tokens) /\ s.buffer \in Seq(Tokens) /\ s.file \o s.buffer \in Seq(Tokens)
  BY ConcatProperties DEF StreamState
<1>2. CASE ~t.bad
  <2> DEFINE text == s.file \o s.buffer
  <2>1. t.file \o t.buffer = Append(text, token) /\ text \in Seq(Tokens)
    BY <1>1, <1>2, InsertAppends
  <2> HIDE DEF text
  <2>2. \A r : Found(text, r) => Found(Append(text, token), r)
    BY <2>1, FoundInAppend
  <2>3. \A r : Found(text, r) => Found(t.file \o t.buffer, r)
    BY <2>1, <2>2
  <2> QED BY <2>3 DEF Keeps, text
<1>3. CASE t.bad
  <2>1. t = s \/ t \in Fails(s, Append(s.buffer, token))
    <3>1. CASE s.bad
      BY <3>1 DEF Insert
    <3>2. CASE ~s.bad
      <4>1. t # [s EXCEPT !.buffer = Append(s.buffer, token)]
        BY <1>3, <3>2 DEF StreamState
      <4>2. t # [s EXCEPT !.file = s.file \o Append(s.buffer, token), !.buffer = <<>>]
        BY <1>3, <3>2 DEF StreamState
      <4> QED BY <3>2, <4>1, <4>2 DEF Insert
    <3> QED BY <3>1, <3>2
  <2>2. Append(s.buffer, token) \in Seq(Tokens)
    BY <1>1, AppendProperties
  <2>3. CASE t = s
    BY <2>3 DEF Keeps
  <2> QED BY <2>1, <2>2, <2>3, FailsKeeps
<1> QED BY <1>2, <1>3

\* A close that succeeds writes the buffer.
LEMMA CloseKeeps ==
  ASSUME NEW s \in StreamState, NEW t \in Close(s), ~t.bad
  PROVE  Keeps(s, t)
<1>1. s.file \o s.buffer \in Seq(Tokens)
  BY ConcatProperties DEF StreamState
<1>2. CASE s.buffer = <<>>
  <2>1. t.file = s.file /\ t.buffer = s.buffer
    BY <1>2 DEF Close, StreamState
  <2> QED BY <2>1 DEF Keeps
<1>3. CASE t = [s EXCEPT !.file = s.file \o s.buffer, !.buffer = <<>>, !.bad = FALSE]
  <2>1. t.file = s.file \o s.buffer /\ t.buffer = <<>>
    BY <1>3 DEF StreamState
  <2>2. t.file \o t.buffer = s.file \o s.buffer
    BY <1>1, <2>1, ConcatEmptySeq
  <2> QED BY <2>2 DEF Keeps
<1>4. ASSUME NEW m \in Fails(s, s.buffer), t = [m EXCEPT !.buffer = <<>>]
      PROVE  FALSE
  <2>1. m \in StreamState /\ m.bad
    BY FailsKeepsBuffer DEF StreamState
  <2> QED BY <1>4, <2>1 DEF StreamState
<1> QED BY <1>2, <1>3, <1>4 DEF Close

LEMMA WriteLossIsAnnounced ==
  ASSUME IInv, is_open, LossIsAnnounced, running, ~unsettled', UNCHANGED <<running, first>>,
         results' = results + 1, results + 1 \in 1..MaxResults, writeLine(results + 1)
  PROVE  LossIsAnnounced'
<1> DEFINE before == [file |-> file, buffer |-> buffer, failures |-> failures, bad |-> FALSE]
           result == results + 1
<1>1. before \in StreamState /\ before.file = file /\ before.buffer = buffer
  BY DEF IInv, TypeOK, StreamState
<1>2. PICK s \in InsertLine(before, result) :
        IF s.bad THEN recover(s, result)
        ELSE /\ written(s) /\ since' = Append(Append(since, result), EndOfLine)
             /\ UNCHANGED <<is_open, base, announced, unsettled>>
  BY DEF writeLine
<1> HIDE DEF before
<1>3. PICK m \in Insert(before, result) : s \in Insert(m, EndOfLine)
  BY <1>2 DEF InsertLine
<1>4. result \in Tokens /\ EndOfLine \in Tokens
  BY DEF Tokens
<1>5. m \in StreamState /\ s \in StreamState
  BY <1>1, <1>3, <1>4, InsertAppends
<1>6. Keeps(before, s)
  BY <1>1, <1>3, <1>4, <1>5, InsertKeeps DEF Keeps
<1>7. /\ ~unsettled
      /\ \A r \in first..results : r \in announced' \/ Found((file \o buffer)', r)
      /\ result \in announced' \/ Found((file \o buffer)', result)
  <2>1. ASSUME ~unsettled, announced \subseteq announced',
               \A r : Found(file \o buffer, r) => Found((file \o buffer)', r)
        PROVE  \A r \in first..results : r \in announced' \/ Found((file \o buffer)', r)
    BY <2>1 DEF LossIsAnnounced, Found
  <2>2. CASE ~s.bad
    <3>1. /\ (file \o buffer)' = s.file \o s.buffer
          /\ UNCHANGED <<announced, unsettled>>
      BY <1>2, <2>2 DEF written
    <3>2. \A r : Found(file \o buffer, r) => Found((file \o buffer)', r)
      BY <1>1, <1>6, <3>1 DEF Keeps
    <3>3. /\ m.file \o m.buffer \in Seq(Tokens)
          /\ s.file \o s.buffer = Append(m.file \o m.buffer, EndOfLine)
          /\ before.file \o before.buffer \in Seq(Tokens)
          /\ m.file \o m.buffer = Append(before.file \o before.buffer, result)
      <4>1. ~m.bad /\ s.file \o s.buffer = Append(m.file \o m.buffer, EndOfLine)
        BY <1>3, <1>4, <1>5, <2>2, InsertAppends
      <4>2. m.file \o m.buffer = Append(before.file \o before.buffer, result)
        BY <1>1, <1>3, <1>4, <4>1, InsertAppends
      <4> QED BY <1>1, <1>5, <4>1, <4>2, ConcatProperties DEF StreamState
    <3> DEFINE line == before.file \o before.buffer
               text == m.file \o m.buffer
    <3>4. Found(text, result)
      <4>1. line \in Seq(Tokens) /\ text = Append(line, result)
        BY <3>3
      <4> HIDE DEF line, text
      <4>2. Found(Append(line, result), result)
        BY <1>4, <4>1, FoundInAppend
      <4> QED BY <4>1, <4>2
    <3>5. Found((file \o buffer)', result)
      <4>1. text \in Seq(Tokens) /\ (file \o buffer)' = Append(text, EndOfLine)
        BY <3>1, <3>3
      <4> HIDE DEF text
      <4>2. Found(Append(text, EndOfLine), result)
        BY <1>4, <3>4, <4>1, FoundInAppend
      <4> QED BY <4>1, <4>2
    <3> QED BY <2>1, <3>1, <3>2, <3>5
  <2>3. CASE s.bad
    <3>1. PICK t \in Close(s) :
            /\ written(t) /\ Open(t.file)
            /\ unsettled' = (unsettled \/ t.bad)
            /\ announced' = announced \cup {result}
      BY <1>2, <2>3 DEF recover
    <3>2. ~unsettled /\ ~t.bad
      BY <3>1
    <3>3. (file \o buffer)' = t.file \o t.buffer
      BY <3>1 DEF written
    <3>4. Keeps(s, t)
      BY <1>5, <3>2, CloseKeeps
    <3>5. \A r : Found(file \o buffer, r) => Found((file \o buffer)', r)
      BY <1>1, <1>6, <3>3, <3>4 DEF Keeps
    <3> QED BY <2>1, <3>1, <3>2, <3>5
  <2> QED BY <2>2, <2>3
<1>8. \A r \in first..(results + 1) : r \in first..results \/ r = results + 1
  BY DEF IInv, TypeOK
<1> QED BY <1>7, <1>8 DEF LossIsAnnounced, Found

LEMMA LossNext == IInv /\ LossIsAnnounced /\ [Next]_vars => LossIsAnnounced'
<1> SUFFICES ASSUME IInv, LossIsAnnounced, [Next]_vars, running', ~unsettled'
             PROVE  LossIsAnnounced'
  BY DEF LossIsAnnounced
<1>1. CASE UNCHANGED vars
  BY <1>1 DEF vars, LossIsAnnounced
<1>2. CASE TradeFileWriter
  <2>1. first' = results + 1 /\ results' = results /\ results \in Nat
    BY <1>2 DEF TradeFileWriter, IInv, TypeOK
  <2>2. first'..results' = {}
    BY <2>1
  <2> QED BY <2>2 DEF LossIsAnnounced
<1>3. CASE write(results + 1)
  <2>1. /\ results' = results + 1 /\ results + 1 \in 1..MaxResults
        /\ running /\ UNCHANGED <<running, first>>
    BY <1>3, BoundsAssumption DEF write, IInv, TypeOK
  <2>2. is_open /\ writeLine(results + 1)
    BY <1>3 DEF write
  <2> QED BY <2>1, <2>2, WriteLossIsAnnounced
<1>4. CASE Terminate
  BY <1>4 DEF Terminate
<1> QED BY <1>1, <1>2, <1>3, <1>4 DEF Next

\* For any number of results, failures of the disk and processes: a result
\* that is missing was announced.
THEOREM LossesAreAnnounced == Spec => []LossIsAnnounced
<1>1. Init => LossIsAnnounced
  BY DEF Init, LossIsAnnounced
<1> QED BY <1>1, LossNext, Invariance, PTL DEF Spec

-----------------------------------------------------------------------------
(***************************************************************************)
(* The damage a file can take: a failure of the disk glues at most two     *)
(* texts to what stands before them, the end of a process at most one.     *)
(*                                                                         *)
(* The number of glued texts alone is no invariant, because a file that    *)
(* ends in the middle of a line does harm only when something follows.     *)
(* Damage counts that harm in advance.  A line that is written whole adds  *)
(* none; a failing write leaves in the file a part of what it should have  *)
(* (FailsGlues), and closing repeats the buffer behind that part           *)
(* (CloseGlues): one text is glued there, and one may be later.            *)
(***************************************************************************)

Gluings(tokens) ==
  {i \in DOMAIN tokens : i > 1 /\ tokens[i] # EndOfLine /\ tokens[i - 1] # EndOfLine}

EndsOpen(tokens) == Len(tokens) > 0 /\ tokens[Len(tokens)] # EndOfLine

Damage(tokens) == Cardinality(Gluings(tokens)) + (IF EndsOpen(tokens) THEN 1 ELSE 0)

\* What failures and earlier processes may have glued.
Allowance == 2 * failures + (starts - 1)

\* The buffer holds the ends of lines, and between two writes whole ones.
LinesWait == Gluings(buffer) = {} /\ ~EndsOpen(buffer)

DamageInv ==
  /\ starts = 0 => ~running /\ file = <<>>
  /\ running => Damage(file \o buffer) <= Allowance
  /\ ~running /\ starts > 0 => Cardinality(Gluings(file)) <= Allowance
  /\ LinesWait

-----------------------------------------------------------------------------
(* Counting gluings.                                                       *)

LEMMA TokensOf ==
  ASSUME NEW s \in Seq(Tokens)
  PROVE  /\ Len(s) \in Nat /\ DOMAIN s = 1..Len(s)
         /\ \A i \in 1..Len(s) : s[i] \in Tokens
BY LenProperties, ElementOfSeq

LEMMA TextOf ==
  ASSUME NEW s \in Seq(Tokens), NEW t \in Seq(Tokens)
  PROVE  LET u == s \o t IN
         /\ u \in Seq(Tokens) /\ Len(u) = Len(s) + Len(t) /\ DOMAIN u = 1..Len(u)
         /\ \A i \in 1..Len(s) : u[i] = s[i]
         /\ \A i \in 1..Len(t) : u[Len(s) + i] = t[i]
<1> DEFINE u == s \o t
<1>1. /\ u \in Seq(Tokens) /\ Len(u) = Len(s) + Len(t)
      /\ \A i \in 1..Len(u) : u[i] = IF i <= Len(s) THEN s[i] ELSE t[i - Len(s)]
  BY ConcatProperties
<1>2. DOMAIN u = 1..Len(u)
  BY <1>1, TokensOf
<1>3. Len(s) \in Nat /\ Len(t) \in Nat
  BY TokensOf
<1> HIDE DEF u
<1>4. \A i \in 1..Len(s) : u[i] = s[i]
  BY <1>1, <1>3
<1>5. ASSUME NEW i \in 1..Len(t) PROVE u[Len(s) + i] = t[i]
  <2>1. /\ Len(s) + i \in 1..Len(u) /\ ~(Len(s) + i <= Len(s))
        /\ (Len(s) + i) - Len(s) = i
    BY <1>1, <1>3
  <2> QED BY <1>1, <2>1
<1> QED BY <1>1, <1>2, <1>4, <1>5 DEF u

LEMMA GluingsFinite ==
  ASSUME NEW s \in Seq(Tokens)
  PROVE  IsFiniteSet(Gluings(s)) /\ Cardinality(Gluings(s)) \in Nat
<1>1. Gluings(s) \subseteq 1..Len(s) /\ Len(s) \in Nat
  BY TokensOf DEF Gluings
<1>2. IsFiniteSet(1..Len(s))
  BY <1>1, FS_Interval
<1> QED BY <1>1, <1>2, FS_Subset, FS_CardinalityType

\* Where s has a text, t has one.
LEMMA GluingsMonotonic ==
  ASSUME NEW s \in Seq(Tokens), NEW t \in Seq(Tokens), Len(s) <= Len(t),
         \A i \in 1..Len(s) : s[i] # EndOfLine => t[i] # EndOfLine
  PROVE  /\ Gluings(s) \subseteq Gluings(t)
         /\ Cardinality(Gluings(s)) <= Cardinality(Gluings(t))
<1>1. ASSUME NEW i \in Gluings(s) PROVE i \in Gluings(t)
  <2>1. /\ i \in 1..Len(s) /\ i > 1 /\ s[i] # EndOfLine /\ s[i - 1] # EndOfLine
        /\ i - 1 \in 1..Len(s)
    BY TokensOf DEF Gluings
  <2>2. i \in DOMAIN t
    BY <2>1, TokensOf
  <2> QED BY <2>1, <2>2 DEF Gluings
<1> QED BY <1>1, GluingsFinite, FS_Subset

LEMMA OneMore ==
  ASSUME NEW S, NEW T, NEW x, IsFiniteSet(T), S \subseteq T \cup {x}
  PROVE  IsFiniteSet(S) /\ Cardinality(S) <= Cardinality(T) + 1
<1>1. IsFiniteSet(T \cup {x}) /\ Cardinality(T) \in Nat
  BY FS_AddElement, FS_CardinalityType
<1>2. Cardinality(T \cup {x}) <= Cardinality(T) + 1
  BY <1>1, FS_AddElement
<1>3. IsFiniteSet(S) /\ Cardinality(S) <= Cardinality(T \cup {x})
  BY <1>1, FS_Subset
<1>4. Cardinality(S) \in Nat /\ Cardinality(T \cup {x}) \in Nat
  BY <1>1, <1>3, FS_CardinalityType
<1> QED BY <1>1, <1>2, <1>3, <1>4

\* Behind s, only the first text of t can be glued.
LEMMA GluingsConcat ==
  ASSUME NEW s \in Seq(Tokens), NEW t \in Seq(Tokens), Gluings(t) = {}
  PROVE  /\ s \o t \in Seq(Tokens)
         /\ Cardinality(Gluings(s \o t)) <= Cardinality(Gluings(s)) + 1
<1> DEFINE u == s \o t
<1>1. /\ u \in Seq(Tokens) /\ Len(u) = Len(s) + Len(t) /\ DOMAIN u = 1..Len(u)
      /\ \A i \in 1..Len(s) : u[i] = s[i]
      /\ \A i \in 1..Len(t) : u[Len(s) + i] = t[i]
  BY TextOf
<1>2. /\ Len(s) \in Nat /\ Len(t) \in Nat
      /\ DOMAIN s = 1..Len(s) /\ DOMAIN t = 1..Len(t)
  BY TokensOf
<1> HIDE DEF u
<1>3. ASSUME NEW i \in Gluings(u) PROVE i \in Gluings(s) \cup {Len(s) + 1}
  <2>1. i \in 1..(Len(s) + Len(t)) /\ i > 1 /\ u[i] # EndOfLine /\ u[i - 1] # EndOfLine
    BY <1>1 DEF Gluings
  <2>2. CASE i <= Len(s)
    <3>1. i \in 1..Len(s) /\ i - 1 \in 1..Len(s)
      BY <1>2, <2>1, <2>2
    <3>2. s[i] # EndOfLine /\ s[i - 1] # EndOfLine
      BY <1>1, <2>1, <3>1
    <3> QED BY <1>2, <2>1, <3>1, <3>2 DEF Gluings
  <2>3. CASE i > Len(s) + 1
    <3> DEFINE j == i - Len(s)
    <3>1. /\ j \in 1..Len(t) /\ j - 1 \in 1..Len(t) /\ j > 1
          /\ Len(s) + j = i /\ Len(s) + (j - 1) = i - 1
      BY <1>2, <2>1, <2>3
    <3> HIDE DEF j
    <3>2. t[j] # EndOfLine /\ t[j - 1] # EndOfLine
      BY <1>1, <2>1, <3>1
    <3>3. j \in Gluings(t)
      BY <1>2, <3>1, <3>2 DEF Gluings
    <3> QED BY <3>3
  <2> QED BY <1>2, <2>1, <2>2, <2>3
<1>4. Gluings(u) \subseteq Gluings(s) \cup {Len(s) + 1}
  BY <1>3
<1>5. Cardinality(Gluings(u)) <= Cardinality(Gluings(s)) + 1
  BY <1>4, GluingsFinite, OneMore
<1> QED BY <1>1, <1>5 DEF u

LEMMA DamageType ==
  ASSUME NEW s \in Seq(Tokens)
  PROVE  /\ Damage(s) \in Nat
         /\ Cardinality(Gluings(s)) <= Damage(s)
         /\ Damage(s) <= Cardinality(Gluings(s)) + 1
BY GluingsFinite DEF Damage

\* Whatever comes next can be glued only to an open end.
LEMMA GluingsAppend ==
  ASSUME NEW s \in Seq(Tokens), NEW token \in Tokens
  PROVE  LET u == Append(s, token) IN
         /\ u \in Seq(Tokens)
         /\ Cardinality(Gluings(u)) <= Damage(s)
         /\ EndsOpen(u) <=> token # EndOfLine
         /\ token = EndOfLine => Gluings(u) = Gluings(s)
         /\ ~EndsOpen(s) => Gluings(u) = Gluings(s)
<1> DEFINE u == Append(s, token)
<1>1. /\ u \in Seq(Tokens) /\ Len(u) = Len(s) + 1
      /\ \A i \in 1..Len(s) : u[i] = s[i]
      /\ u[Len(s) + 1] = token
  BY AppendProperties
<1>2. Len(s) \in Nat /\ DOMAIN s = 1..Len(s) /\ DOMAIN u = 1..(Len(s) + 1)
  BY <1>1, TokensOf
<1> HIDE DEF u
<1>3. EndsOpen(u) <=> token # EndOfLine
  BY <1>1, <1>2 DEF EndsOpen
<1>4. Gluings(s) \subseteq Gluings(u)
  BY <1>1, <1>2 DEF Gluings
<1>5. ASSUME NEW i \in Gluings(u), i \notin Gluings(s)
      PROVE  i = Len(s) + 1 /\ EndsOpen(s) /\ token # EndOfLine
  <2>1. i \in 1..(Len(s) + 1) /\ i > 1 /\ u[i] # EndOfLine /\ u[i - 1] # EndOfLine
    BY <1>2, <1>5 DEF Gluings
  <2>2. ~(i \in 1..Len(s))
    <3> SUFFICES ASSUME i \in 1..Len(s) PROVE FALSE
      OBVIOUS
    <3>1. i - 1 \in 1..Len(s)
      BY <1>2, <2>1
    <3>2. s[i] # EndOfLine /\ s[i - 1] # EndOfLine
      BY <1>1, <2>1, <3>1
    <3> QED BY <1>2, <1>5, <2>1, <3>2 DEF Gluings
  <2>3. i = Len(s) + 1
    BY <1>2, <2>1, <2>2
  <2>4. Len(s) > 0 /\ s[Len(s)] # EndOfLine
    <3>1. i - 1 = Len(s) /\ Len(s) \in 1..Len(s)
      BY <1>2, <2>1, <2>3
    <3> QED BY <1>1, <2>1, <3>1
  <2> QED BY <1>1, <2>1, <2>3, <2>4 DEF EndsOpen
<1>6. Cardinality(Gluings(u)) <= Damage(s)
  <2>1. CASE EndsOpen(s)
    <3>1. Gluings(u) \subseteq Gluings(s) \cup {Len(s) + 1}
      BY <1>5
    <3>2. Cardinality(Gluings(u)) <= Cardinality(Gluings(s)) + 1
      BY <3>1, GluingsFinite, OneMore
    <3> QED BY <2>1, <3>2 DEF Damage
  <2>2. CASE ~EndsOpen(s)
    <3>1. Gluings(u) = Gluings(s)
      BY <1>4, <1>5, <2>2
    <3> QED BY <3>1, GluingsFinite, DamageType
  <2> QED BY <2>1, <2>2
<1>7. /\ token = EndOfLine => Gluings(u) = Gluings(s)
      /\ ~EndsOpen(s) => Gluings(u) = Gluings(s)
  BY <1>4, <1>5
<1> QED BY <1>1, <1>3, <1>6, <1>7 DEF u

LEMMA GluingsEmpty ==
  Gluings(<<>>) = {} /\ ~EndsOpen(<<>>) /\ Damage(<<>>) = 0
<1>1. Gluings(<<>>) = {} /\ ~EndsOpen(<<>>)
  BY DEF Gluings, EndsOpen
<1> QED BY <1>1, FS_EmptySet DEF Damage

-----------------------------------------------------------------------------
(* The output stream.                                                      *)

\* A part has texts only where the whole has them.
LEMMA PartialMasked ==
  ASSUME NEW tokens \in Seq(Tokens), NEW part \in Partial(tokens)
  PROVE  /\ part \in Seq(Tokens) /\ Len(part) <= Len(tokens)
         /\ \A i \in 1..Len(part) : part[i] # EndOfLine => tokens[i] # EndOfLine
<1>1. Len(tokens) \in Nat /\ \A i \in 1..Len(tokens) : tokens[i] \in Tokens
  BY TokensOf
<1>2. ASSUME NEW k \in 0..Len(tokens)
      PROVE  LET s == SubSeq(tokens, 1, k) IN
             /\ s \in Seq(Tokens) /\ Len(s) = k
             /\ \A i \in 1..k : s[i] = tokens[i]
  <2>1. 1 \in Int /\ k \in Int /\ \A i \in 1..k : tokens[i] \in Tokens
    BY <1>1
  <2>2. LET s == SubSeq(tokens, 1, k) IN
        /\ s \in Seq(Tokens)
        /\ Len(s) = IF 1 <= k THEN k - 1 + 1 ELSE 0
        /\ \A i \in 1..(k - 1 + 1) : s[i] = tokens[1 + i - 1]
    BY <2>1, SubSeqProperties
  <2> QED BY <1>1, <2>2
<1>3. part \in Seq(Tokens)
  BY PartialType
<1>4. CASE \E k \in 0..(Len(tokens) - 1) : part = SubSeq(tokens, 1, k)
  <2>1. PICK k \in 0..Len(tokens) : part = SubSeq(tokens, 1, k)
    BY <1>1, <1>4
  <2> QED BY <1>2, <1>3, <2>1
<1>5. CASE \E k \in 1..Len(tokens) :
             tokens[k] > 0 /\ part = Append(SubSeq(tokens, 1, k - 1), Fragment)
  <2>1. PICK k \in 1..Len(tokens) :
          tokens[k] > 0 /\ part = Append(SubSeq(tokens, 1, k - 1), Fragment)
    BY <1>5
  <2> DEFINE s == SubSeq(tokens, 1, k - 1)
  <2>2. k - 1 \in 0..Len(tokens)
    BY <1>1
  <2>3. s \in Seq(Tokens) /\ Len(s) = k - 1 /\ \A i \in 1..(k - 1) : s[i] = tokens[i]
    BY <1>2, <2>2
  <2> HIDE DEF s
  <2>4. Fragment \in Tokens
    BY DEF Tokens
  <2>5. Len(part) = k /\ \A i \in 1..(k - 1) : part[i] = tokens[i]
    <3>1. part = Append(s, Fragment)
      BY <2>1 DEF s
    <3>2. Len(part) = Len(s) + 1 /\ \A i \in 1..Len(s) : part[i] = s[i]
      BY <2>3, <2>4, <3>1, AppendProperties
    <3> QED BY <2>3, <3>2
  <2>6. tokens[k] # EndOfLine
    BY <2>1 DEF EndOfLine
  <2> QED BY <1>1, <1>3, <2>5, <2>6
<1> QED BY <1>4, <1>5 DEF Partial

LEMMA FailsGlues ==
  ASSUME NEW s \in StreamState, NEW tokens \in Seq(Tokens), NEW t \in Fails(s, tokens)
  PROVE  /\ t.file \in Seq(Tokens) /\ t.failures = s.failures + 1
         /\ Cardinality(Gluings(t.file)) <= Cardinality(Gluings(s.file \o tokens))
<1>1. PICK part \in Partial(tokens) :
        t = [s EXCEPT !.file = s.file \o part, !.failures = s.failures + 1, !.bad = TRUE]
  BY DEF Fails
<1>2. t.file = s.file \o part /\ t.failures = s.failures + 1 /\ s.file \in Seq(Tokens)
  BY <1>1 DEF StreamState
<1>3. /\ part \in Seq(Tokens) /\ Len(part) <= Len(tokens)
      /\ \A i \in 1..Len(part) : part[i] # EndOfLine => tokens[i] # EndOfLine
  BY PartialMasked
<1> DEFINE left == s.file \o part
           meant == s.file \o tokens
<1>4. /\ left \in Seq(Tokens) /\ Len(left) = Len(s.file) + Len(part)
      /\ \A i \in 1..Len(s.file) : left[i] = s.file[i]
      /\ \A i \in 1..Len(part) : left[Len(s.file) + i] = part[i]
  BY <1>2, <1>3, TextOf
<1>5. /\ meant \in Seq(Tokens) /\ Len(meant) = Len(s.file) + Len(tokens)
      /\ \A i \in 1..Len(s.file) : meant[i] = s.file[i]
      /\ \A i \in 1..Len(tokens) : meant[Len(s.file) + i] = tokens[i]
  BY <1>2, TextOf
<1> HIDE DEF left, meant
<1>6. Len(s.file) \in Nat /\ Len(part) \in Nat /\ Len(tokens) \in Nat
  BY <1>2, <1>3, TokensOf
<1>7. ASSUME NEW i \in 1..Len(left), left[i] # EndOfLine PROVE meant[i] # EndOfLine
  <2>1. CASE i <= Len(s.file)
    BY <1>4, <1>5, <1>6, <1>7, <2>1
  <2>2. CASE i > Len(s.file)
    <3>1. PICK j \in 1..Len(part) : i = Len(s.file) + j
      <4>1. i - Len(s.file) \in 1..Len(part) /\ i = Len(s.file) + (i - Len(s.file))
        BY <1>4, <1>6, <2>2
      <4> QED BY <4>1
    <3>2. j \in 1..Len(tokens)
      BY <1>3, <1>6
    <3>3. left[i] = part[j] /\ meant[i] = tokens[j]
      BY <1>4, <1>5, <3>1, <3>2
    <3> QED BY <1>3, <1>7, <3>3
  <2> QED BY <1>4, <1>6, <2>1, <2>2
<1>8. Len(left) <= Len(meant)
  BY <1>3, <1>4, <1>5, <1>6
<1>9. Cardinality(Gluings(left)) <= Cardinality(Gluings(meant))
  BY <1>4, <1>5, <1>7, <1>8, GluingsMonotonic
<1> QED BY <1>2, <1>4, <1>9 DEF left, meant

\* A part of a text without gluings has none.
LEMMA PartialGlues ==
  ASSUME NEW tokens \in Seq(Tokens), Gluings(tokens) = {}, NEW part \in Partial(tokens)
  PROVE  part \in Seq(Tokens) /\ Gluings(part) = {}
<1>1. /\ part \in Seq(Tokens) /\ Len(part) <= Len(tokens)
      /\ \A i \in 1..Len(part) : part[i] # EndOfLine => tokens[i] # EndOfLine
  BY PartialMasked
<1>2. Gluings(part) \subseteq Gluings(tokens)
  BY <1>1, GluingsMonotonic
<1> QED BY <1>1, <1>2

LEMMA CloseGlues ==
  ASSUME NEW s \in StreamState, Gluings(s.buffer) = {}, NEW t \in Close(s)
  PROVE  /\ t.file \in Seq(Tokens) /\ t.failures \in Nat /\ t.failures >= s.failures
         /\ Damage(t.file) <= Cardinality(Gluings(s.file)) + 2
<1>1. s.file \in Seq(Tokens) /\ s.buffer \in Seq(Tokens) /\ s.failures \in Nat
  BY DEF StreamState
<1>2. ASSUME NEW rest \in Seq(Tokens), Gluings(rest) = {}, t.file = s.file \o rest
      PROVE  t.file \in Seq(Tokens) /\ Damage(t.file) <= Cardinality(Gluings(s.file)) + 2
  <2>1. /\ t.file \in Seq(Tokens)
        /\ Cardinality(Gluings(t.file)) <= Cardinality(Gluings(s.file)) + 1
    BY <1>1, <1>2, GluingsConcat
  <2>2. Damage(t.file) \in Nat /\ Damage(t.file) <= Cardinality(Gluings(t.file)) + 1
    BY <2>1, DamageType
  <2>3. Cardinality(Gluings(t.file)) \in Nat /\ Cardinality(Gluings(s.file)) \in Nat
    BY <1>1, <2>1, GluingsFinite
  <2> QED BY <2>1, <2>2, <2>3
<1>3. CASE s.buffer = <<>>
  <2>1. t.file = s.file /\ t.failures = s.failures
    BY <1>3 DEF Close, StreamState
  <2>2. t.file = s.file \o <<>> /\ <<>> \in Seq(Tokens)
    BY <1>1, <2>1, ConcatEmptySeq, EmptySeq
  <2>3. PICK rest : rest = <<>>
    OBVIOUS
  <2>4. rest \in Seq(Tokens) /\ Gluings(rest) = {} /\ t.file = s.file \o rest
    BY <2>2, <2>3, GluingsEmpty
  <2> QED BY <1>1, <1>2, <2>1, <2>4, SMTT(30)
<1>4. CASE t = [s EXCEPT !.file = s.file \o s.buffer, !.buffer = <<>>, !.bad = FALSE]
  <2>1. t.file = s.file \o s.buffer /\ t.failures = s.failures
    BY <1>4 DEF StreamState
  <2>2. t.file \in Seq(Tokens) /\ Damage(t.file) <= Cardinality(Gluings(s.file)) + 2
    BY <1>1, <1>2, <2>1
  <2> QED BY <1>1, <2>1, <2>2
<1>5. ASSUME NEW m \in Fails(s, s.buffer), t = [m EXCEPT !.buffer = <<>>]
      PROVE  /\ t.file \in Seq(Tokens) /\ t.failures \in Nat /\ t.failures >= s.failures
             /\ Damage(t.file) <= Cardinality(Gluings(s.file)) + 2
  <2>1. PICK part \in Partial(s.buffer) :
          m = [s EXCEPT !.file = s.file \o part, !.failures = s.failures + 1, !.bad = TRUE]
    BY <1>5 DEF Fails
  <2>2. m \in StreamState /\ m.file = s.file \o part /\ m.failures = s.failures + 1
    BY <1>1, <1>5, <2>1, FailsKeepsBuffer DEF StreamState
  <2>3. t.file = s.file \o part /\ t.failures = s.failures + 1
    BY <1>5, <2>2 DEF StreamState
  <2>4. part \in Seq(Tokens) /\ Gluings(part) = {}
    BY <1>1, PartialGlues
  <2> QED BY <1>1, <1>2, <2>3, <2>4
<1> QED BY <1>3, <1>4, <1>5 DEF Close

\* A stream that goes bad failed once, with what it should have written; one
\* that stays good has the token in its buffer or has emptied it.
LEMMA InsertOutcome ==
  ASSUME NEW s \in StreamState, NEW token \in Tokens, NEW t \in Insert(s, token)
  PROVE  /\ s.bad => t = s
         /\ ~s.bad /\ t.bad => t \in Fails(s, Append(s.buffer, token))
         /\ ~t.bad => /\ t.failures = s.failures
                      /\ t.buffer = Append(s.buffer, token) \/ t.buffer = <<>>
<1>1. ASSUME ~s.bad, t = [s EXCEPT !.buffer = Append(s.buffer, token)]
      PROVE  ~t.bad /\ t.failures = s.failures /\ t.buffer = Append(s.buffer, token)
  BY <1>1 DEF StreamState
<1>2. ASSUME ~s.bad, t = [s EXCEPT !.file = s.file \o Append(s.buffer, token), !.buffer = <<>>]
      PROVE  ~t.bad /\ t.failures = s.failures /\ t.buffer = <<>>
  BY <1>2 DEF StreamState
<1>3. ASSUME t \in Fails(s, Append(s.buffer, token)) PROVE t.bad
  BY <1>3, AppendProperties, FailsKeepsBuffer DEF StreamState
<1> QED BY <1>1, <1>2, <1>3, InsertAppends DEF Insert

\* A line that is written whole glues at most what was open before it; a line
\* that is not leaves a file which glues no more than that.
LEMMA InsertLineDamage ==
  ASSUME NEW s \in StreamState, ~s.bad, Gluings(s.buffer) = {}, ~EndsOpen(s.buffer),
         NEW result \in 1..MaxResults, NEW t \in InsertLine(s, result)
  PROVE  /\ t \in StreamState /\ Gluings(t.buffer) = {}
         /\ ~t.bad => /\ t.failures = s.failures /\ ~EndsOpen(t.buffer)
                      /\ Damage(t.file \o t.buffer) <= Damage(s.file \o s.buffer)
         /\ t.bad => /\ t.failures = s.failures + 1
                     /\ Cardinality(Gluings(t.file)) <= Damage(s.file \o s.buffer)
<1> DEFINE text == s.file \o s.buffer
<1>1. PICK m \in Insert(s, result) : t \in Insert(m, EndOfLine)
  BY DEF InsertLine
<1>2. result \in Tokens /\ EndOfLine \in Tokens /\ result # EndOfLine
  BY DEF Tokens, EndOfLine
<1>3. s.file \in Seq(Tokens) /\ s.buffer \in Seq(Tokens) /\ text \in Seq(Tokens)
  BY ConcatProperties DEF StreamState
<1>4. m \in StreamState /\ t \in StreamState
  BY <1>1, <1>2, InsertAppends
<1>5. m.file \in Seq(Tokens) /\ m.buffer \in Seq(Tokens)
  BY <1>4 DEF StreamState
<1>6. /\ Append(text, result) \in Seq(Tokens)
      /\ s.file \o Append(s.buffer, result) = Append(text, result)
      /\ Cardinality(Gluings(Append(text, result))) <= Damage(text)
  <2>1. /\ Append(text, result) \in Seq(Tokens)
        /\ Cardinality(Gluings(Append(text, result))) <= Damage(text)
    BY <1>2, <1>3, GluingsAppend
  <2>2. s.file \o Append(s.buffer, result) = Append(text, result)
    BY <1>2, <1>3, AppendBehind
  <2> QED BY <2>1, <2>2
<1>7. /\ Gluings(Append(s.buffer, result)) = {} /\ Gluings(<<>>) = {} /\ ~EndsOpen(<<>>)
      /\ Append(s.buffer, result) \in Seq(Tokens)
  BY <1>2, <1>3, GluingsAppend, GluingsEmpty
<1> HIDE DEF text
<1>8. CASE m.bad
  <2>1. t = m /\ m \in Fails(s, Append(s.buffer, result))
    BY <1>1, <1>2, <1>4, <1>8, InsertOutcome
  <2>2. m.buffer = s.buffer
    BY <1>7, <2>1, FailsKeepsBuffer
  <2>3. /\ m.failures = s.failures + 1
        /\ Cardinality(Gluings(m.file)) <= Cardinality(Gluings(Append(text, result)))
    BY <1>6, <1>7, <2>1, FailsGlues
  <2>4. Cardinality(Gluings(m.file)) <= Damage(text)
    <3>1. /\ Cardinality(Gluings(m.file)) \in Nat /\ Damage(text) \in Nat
          /\ Cardinality(Gluings(Append(text, result))) \in Nat
      BY <1>3, <1>5, <1>6, GluingsFinite, DamageType DEF text
    <3> QED BY <1>6, <2>3, <3>1
  <2> QED BY <1>4, <1>8, <2>1, <2>2, <2>3, <2>4 DEF text
<1>9. CASE ~m.bad
  <2> DEFINE line == m.file \o m.buffer
  <2>1. line = Append(text, result)
    BY <1>1, <1>2, <1>9, InsertAppends DEF text
  <2>2. m.failures = s.failures /\ (m.buffer = Append(s.buffer, result) \/ m.buffer = <<>>)
    BY <1>1, <1>2, <1>9, InsertOutcome
  <2>3. Gluings(m.buffer) = {}
    BY <1>7, <2>2
  <2>4. line \in Seq(Tokens) /\ Cardinality(Gluings(line)) <= Damage(text)
    BY <1>6, <2>1
  <2>5. /\ Append(m.buffer, EndOfLine) \in Seq(Tokens)
        /\ m.file \o Append(m.buffer, EndOfLine) = Append(line, EndOfLine)
        /\ Gluings(Append(m.buffer, EndOfLine)) = {} /\ ~EndsOpen(Append(m.buffer, EndOfLine))
    <3>1. /\ Append(m.buffer, EndOfLine) \in Seq(Tokens)
          /\ m.file \o Append(m.buffer, EndOfLine) = Append(line, EndOfLine)
      BY <1>2, <1>5, AppendBehind
    <3>2. /\ Gluings(Append(m.buffer, EndOfLine)) = {}
          /\ ~EndsOpen(Append(m.buffer, EndOfLine))
      BY <1>2, <1>5, <2>3, GluingsAppend
    <3> QED BY <3>1, <3>2
  <2>6. /\ Append(line, EndOfLine) \in Seq(Tokens)
        /\ Gluings(Append(line, EndOfLine)) = Gluings(line) /\ ~EndsOpen(Append(line, EndOfLine))
    BY <1>2, <2>4, GluingsAppend
  <2> HIDE DEF line
  <2>7. CASE t.bad
    <3>1. t \in Fails(m, Append(m.buffer, EndOfLine))
      BY <1>1, <1>2, <1>4, <1>9, <2>7, InsertOutcome
    <3>2. t.buffer = m.buffer
      BY <1>4, <2>5, <3>1, FailsKeepsBuffer
    <3>3. /\ t.failures = m.failures + 1
          /\ Cardinality(Gluings(t.file)) <= Cardinality(Gluings(Append(line, EndOfLine)))
      BY <1>4, <2>5, <3>1, FailsGlues
    <3>4. t.file \in Seq(Tokens)
      BY <1>4 DEF StreamState
    <3>5. Cardinality(Gluings(t.file)) <= Damage(text)
      <4>1. /\ Cardinality(Gluings(t.file)) \in Nat /\ Damage(text) \in Nat
            /\ Cardinality(Gluings(line)) \in Nat
        BY <1>3, <2>4, <3>4, GluingsFinite, DamageType DEF text
      <4> QED BY <2>4, <2>6, <3>3, <4>1
    <3> QED BY <1>4, <2>2, <2>3, <2>7, <3>2, <3>3, <3>5 DEF text
  <2>8. CASE ~t.bad
    <3>1. t.file \o t.buffer = Append(line, EndOfLine)
      BY <1>1, <1>2, <1>4, <2>8, InsertAppends DEF line
    <3>2. /\ t.failures = m.failures
          /\ t.buffer = Append(m.buffer, EndOfLine) \/ t.buffer = <<>>
      BY <1>1, <1>2, <1>4, <2>8, InsertOutcome
    <3>3. Gluings(t.buffer) = {} /\ ~EndsOpen(t.buffer)
      BY <1>7, <2>5, <3>2
    <3>4. Damage(t.file \o t.buffer) <= Damage(text)
      <4>1. Damage(Append(line, EndOfLine)) = Cardinality(Gluings(line))
        BY <2>4, <2>6, GluingsFinite DEF Damage
      <4> QED BY <2>4, <3>1, <4>1
    <3> QED BY <1>4, <2>2, <2>8, <3>2, <3>3, <3>4 DEF text
  <2> QED BY <2>7, <2>8
<1> QED BY <1>8, <1>9

-----------------------------------------------------------------------------
(* The steps.                                                              *)

LEMMA DamageInit == Init => DamageInv
BY GluingsEmpty DEF Init, DamageInv, LinesWait

LEMMA Types ==
  ASSUME IInv
  PROVE  /\ failures \in Nat /\ starts \in Nat
         /\ file \in Seq(Tokens) /\ buffer \in Seq(Tokens) /\ file \o buffer \in Seq(Tokens)
         /\ Damage(file \o buffer) \in Nat
<1>1. /\ failures \in Nat /\ starts \in Nat
      /\ file \in Seq(Tokens) /\ buffer \in Seq(Tokens)
  BY BoundsAssumption DEF IInv, TypeOK
<1>2. file \o buffer \in Seq(Tokens)
  BY <1>1, ConcatProperties
<1> QED BY <1>1, <1>2, DamageType

LEMMA WriteLineDamage ==
  ASSUME IInv, DamageInv, running, is_open, NEW result \in 1..MaxResults, writeLine(result)
  PROVE  /\ LinesWait'
         /\ failures' \in Nat
         /\ Damage((file \o buffer)') <= 2 * failures' + (starts - 1)
<1> DEFINE before == [file |-> file, buffer |-> buffer, failures |-> failures, bad |-> FALSE]
<1>1. /\ before \in StreamState /\ ~before.bad /\ before.file = file
      /\ before.buffer = buffer /\ before.failures = failures
  BY DEF IInv, TypeOK, StreamState
<1>2. PICK s \in InsertLine(before, result) :
        IF s.bad THEN recover(s, result) ELSE written(s)
  BY DEF writeLine
<1> HIDE DEF before
<1>3. /\ failures \in Nat /\ starts \in Nat
      /\ Damage(file \o buffer) \in Nat /\ Damage(file \o buffer) <= 2 * failures + (starts - 1)
  BY Types DEF DamageInv, Allowance
<1>4. /\ s \in StreamState /\ Gluings(s.buffer) = {}
      /\ ~s.bad => /\ s.failures = failures /\ ~EndsOpen(s.buffer)
                   /\ Damage(s.file \o s.buffer) <= Damage(file \o buffer)
      /\ s.bad => /\ s.failures = failures + 1
                  /\ Cardinality(Gluings(s.file)) <= Damage(file \o buffer)
  BY <1>1, <1>2, InsertLineDamage DEF DamageInv, LinesWait
<1>5. s.file \in Seq(Tokens) /\ s.buffer \in Seq(Tokens) /\ s.file \o s.buffer \in Seq(Tokens)
  BY <1>4, ConcatProperties DEF StreamState
<1>6. CASE ~s.bad
  <2>1. file' = s.file /\ buffer' = s.buffer /\ failures' = failures
    BY <1>2, <1>4, <1>6 DEF written
  <2>2. LinesWait'
    BY <1>4, <1>6, <2>1 DEF LinesWait
  <2>3. Damage(s.file \o s.buffer) \in Nat /\ (file \o buffer)' = s.file \o s.buffer
    BY <1>5, <2>1, DamageType
  <2> QED BY <1>3, <1>4, <1>6, <2>1, <2>2, <2>3
<1>7. CASE s.bad
  <2>1. PICK t \in Close(s) : written(t)
    BY <1>2, <1>7 DEF recover
  <2>2. /\ t.file \in Seq(Tokens) /\ t.failures \in Nat /\ t.failures >= s.failures
        /\ Damage(t.file) <= Cardinality(Gluings(s.file)) + 2
    BY <1>4, CloseGlues
  <2>3. t.buffer = <<>>
    BY <1>4, CloseEmpties
  <2>4. file' = t.file /\ buffer' = <<>> /\ failures' = t.failures
    BY <2>1, <2>3 DEF written
  <2>5. (file \o buffer)' = t.file
    BY <2>2, <2>4, ConcatEmptySeq
  <2>6. LinesWait'
    BY <2>4, GluingsEmpty DEF LinesWait
  <2>7. Damage(t.file) \in Nat /\ Cardinality(Gluings(s.file)) \in Nat
    BY <1>5, <2>2, DamageType, GluingsFinite
  <2>8. Damage(t.file) <= 2 * t.failures + (starts - 1)
    BY <1>3, <1>4, <1>7, <2>2, <2>7
  <2> QED BY <2>2, <2>4, <2>5, <2>6, <2>8
<1> QED BY <1>6, <1>7

\* The file alone is damaged no more than the file with its buffer.
LEMMA FileGlues ==
  ASSUME IInv
  PROVE  /\ Cardinality(Gluings(file)) \in Nat
         /\ Cardinality(Gluings(file)) <= Damage(file \o buffer)
<1>1. file \in Seq(Tokens) /\ buffer \in Seq(Tokens)
  BY DEF IInv, TypeOK
<1> DEFINE text == file \o buffer
<1>2. /\ text \in Seq(Tokens) /\ Len(text) = Len(file) + Len(buffer)
      /\ \A i \in 1..Len(file) : text[i] = file[i]
  BY <1>1, TextOf
<1> HIDE DEF text
<1>3. Len(file) <= Len(text) /\ \A i \in 1..Len(file) : file[i] # EndOfLine => text[i] # EndOfLine
  BY <1>1, <1>2, TokensOf
<1>4. Cardinality(Gluings(file)) <= Cardinality(Gluings(text))
  BY <1>1, <1>2, <1>3, GluingsMonotonic
<1>5. /\ Cardinality(Gluings(file)) \in Nat /\ Cardinality(Gluings(text)) \in Nat
      /\ Damage(text) \in Nat /\ Cardinality(Gluings(text)) <= Damage(text)
  BY <1>1, <1>2, GluingsFinite, DamageType
<1> QED BY <1>4, <1>5 DEF text

LEMMA DamageNext == IInv /\ DamageInv /\ [Next]_vars => DamageInv'
<1> SUFFICES ASSUME IInv, DamageInv, [Next]_vars PROVE DamageInv'
  OBVIOUS
<1>1. failures \in Nat /\ starts \in Nat /\ file \in Seq(Tokens) /\ buffer \in Seq(Tokens)
  BY Types
<1>2. CASE UNCHANGED vars
  BY <1>2 DEF vars, DamageInv, LinesWait, Allowance
<1>3. CASE TradeFileWriter
  <2>1. /\ file' = file /\ buffer' = buffer /\ buffer = <<>> /\ failures' = failures
        /\ ~running /\ running' /\ starts' = starts + 1
    BY <1>3 DEF TradeFileWriter, IInv, TypeOK
  <2>2. (file \o buffer)' = file
    BY <1>1, <2>1, ConcatEmptySeq
  <2>3. Damage(file) <= 2 * failures + starts
    <3>1. CASE starts = 0
      BY <1>1, <3>1, GluingsEmpty DEF DamageInv
    <3>2. CASE starts > 0
      <4>1. /\ Cardinality(Gluings(file)) <= 2 * failures + (starts - 1)
            /\ Damage(file) <= Cardinality(Gluings(file)) + 1
            /\ Cardinality(Gluings(file)) \in Nat /\ Damage(file) \in Nat
        BY <1>1, <2>1, <3>2, DamageType, GluingsFinite DEF DamageInv, Allowance
      <4> QED BY <1>1, <4>1
    <3> QED BY <1>1, <3>1, <3>2
  <2>4. Damage((file \o buffer)') <= Allowance'
    BY <1>1, <2>1, <2>2, <2>3 DEF Allowance
  <2> QED BY <1>1, <2>1, <2>4 DEF DamageInv, LinesWait
<1>4. CASE write(results + 1)
  <2>1. running /\ running' /\ starts' = starts /\ starts # 0
    BY <1>4 DEF write, DamageInv
  <2>2. CASE is_open /\ writeLine(results + 1)
    <3>1. results + 1 \in 1..MaxResults
      BY <1>4, BoundsAssumption DEF write, IInv, TypeOK
    <3>2. LinesWait' /\ Damage((file \o buffer)') <= Allowance'
      BY <2>1, <2>2, <3>1, WriteLineDamage DEF Allowance
    <3> QED BY <2>1, <3>2 DEF DamageInv
  <2>3. CASE ~is_open
    <3>1. UNCHANGED <<file, buffer, failures>>
      BY <1>4, <2>3 DEF write
    <3> QED BY <2>1, <3>1 DEF DamageInv, LinesWait, Allowance
  <2> QED BY <1>4, <2>2, <2>3 DEF write
<1>5. CASE Terminate
  <2>1. /\ running /\ ~running' /\ buffer' = <<>> /\ UNCHANGED <<file, failures, starts>>
    BY <1>5 DEF Terminate
  <2>2. Damage(file \o buffer) <= 2 * failures + (starts - 1) /\ starts # 0
    BY <2>1 DEF DamageInv, Allowance
  <2>3. /\ Cardinality(Gluings(file)) \in Nat
        /\ Cardinality(Gluings(file)) <= Damage(file \o buffer)
        /\ Damage(file \o buffer) \in Nat
    BY FileGlues, Types
  <2>4. Cardinality(Gluings(file)) <= 2 * failures + (starts - 1)
    BY <1>1, <2>2, <2>3
  <2> QED BY <2>1, <2>2, <2>4, GluingsEmpty DEF DamageInv, LinesWait, Allowance
<1> QED BY <1>2, <1>3, <1>4, <1>5 DEF Next

\* For any number of results, failures of the disk and processes: a failure
\* of the disk spoils at most two lines, the end of a process at most one.
THEOREM DamageBounded == Spec => []DamageIsBounded
<1>1. IInv /\ DamageInv => DamageIsBounded
  <2> SUFFICES ASSUME IInv, DamageInv, starts > 0
               PROVE  Cardinality(Glued) <= 2 * failures + (starts - 1)
    BY DEF DamageIsBounded
  <2>1. Glued = Gluings(file)
    BY DEF Glued, Gluings
  <2>2. /\ Cardinality(Gluings(file)) \in Nat /\ failures \in Nat /\ starts \in Nat
        /\ Cardinality(Gluings(file)) <= Damage(file \o buffer)
        /\ Damage(file \o buffer) \in Nat
    BY FileGlues, Types
  <2>3. CASE running
    <3>1. Damage(file \o buffer) <= 2 * failures + (starts - 1)
      BY <2>3 DEF DamageInv, Allowance
    <3> QED BY <2>1, <2>2, <3>1
  <2>4. CASE ~running
    BY <2>1, <2>4 DEF DamageInv, Allowance
  <2> QED BY <2>3, <2>4
<1> QED BY <1>1, DamageInit, DamageNext, Invariance, PTL DEF Spec
=============================================================================
