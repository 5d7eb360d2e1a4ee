-------------------------- MODULE RunCommandProofs --------------------------
(***************************************************************************)
(* Proofs about RunCommand for every value of its constants: any set of    *)
(* commands, any pipe capacity and buffer size, both kernels.              *)
(***************************************************************************)
EXTENDS RunCommand, SequenceTheorems, TLAPS

-----------------------------------------------------------------------------
(* The inductive invariant *)

Early == {"pipes", "locate", "stdin", "fork", "buffers"}
Listed(s) == \E k \in 1..Len(fds) : fds[k].stream = s

\* A stream nobody can write to and in which nothing is left.
Drained(s) == ~Open(s, "w") /\ pipe[s] = <<>>

\* The pollfd array: one entry per stream, that of stdin only while input is left.
Entries ==
    /\ pc \in Early => fds = <<>> /\ offset = 0
    /\ pc \in Early \ {"buffers"} => prog = "none"
    /\ \A k, l \in 1..Len(fds) : fds[k].stream = fds[l].stream => k = l
    /\ Listed("in") => offset < Len(command.input)
    /\ pc = "write" => i <= Len(fds) /\ fds[i].stream = "in"
    /\ pc \in {"wait", "returned"} => fds = <<>>

\* What poll() said of the entries the loop has still to look at is still true of
\* streams that had been closed: they stay closed, and nothing comes after them.
FreshEntry(f) ==
    f.stream \in Outputs /\ "HUP" \in f.revents
        => ~Open(f.stream, "w") /\ ("IN" \in f.revents \/ pipe[f.stream] = <<>>)

Fresh == pc \in {"scan", "write"} => \A k \in i..Len(fds) : FreshEntry(fds[k])

\* PolledUntilEof, also after the return.
Eof ==
    pc \in {"poll", "scan", "write", "wait", "returned"} =>
        \A s \in Outputs : Listed(s) \/ Drained(s)

\* Whoever is about to write has the stream open.
Writers ==
    /\ pc \in {"locate", "stdin", "fork"} => Holds("parent", "err", "w")
    /\ prog = "setup" => Holds("child", "err", "w")
    /\ prog \in Outputs => Holds("child", prog, "w")

BufferRoom == \A s \in Outputs : Len(buf[s]) <= BufferSize

IInv == /\ TypeOK
        /\ Entries
        /\ Fresh
        /\ Eof
        /\ Writers
        /\ BufferRoom
        /\ StreamIntact

-----------------------------------------------------------------------------
(* Lemmas about sequences *)

LEMMA SmallerBound ==
    ASSUME NEW a \in Nat, NEW c \in Nat, NEW d \in Nat, d <= c
    PROVE  /\ Smaller(a, c - d) \in 0..a
           /\ d + Smaller(a, c - d) <= c
           /\ Smaller(a, c - d) = a \/ d + Smaller(a, c - d) = c
BY DEF Smaller

\* The first n bytes of a pipe and the rest of it.
LEMMA SplitLemma ==
    ASSUME NEW S, NEW p \in Seq(S), NEW n \in 0..Len(p)
    PROVE  /\ Prefix(p, n) \in Seq(S)
           /\ Len(Prefix(p, n)) = n
           /\ SubSeq(p, n + 1, Len(p)) \in Seq(S)
           /\ n = Len(p) => SubSeq(p, n + 1, Len(p)) = <<>>
           /\ Prefix(p, n) \o SubSeq(p, n + 1, Len(p)) = p
<1>1. Len(p) \in Nat /\ \A k \in 1..Len(p) : p[k] \in S
  BY LenProperties, ElementOfSeq
<1>2. Prefix(p, n) \in Seq(S) /\ Len(Prefix(p, n)) = n
  <2>1. \A k \in 1..n : p[k] \in S
    BY <1>1
  <2>2. QED
    BY <1>1, <2>1, SubSeqProperties DEF Prefix
<1>3. SubSeq(p, n + 1, Len(p)) \in Seq(S)
  <2>1. \A k \in (n + 1)..Len(p) : p[k] \in S
    BY <1>1
  <2>2. QED
    BY <1>1, <2>1, SubSeqProperties
<1>4. n = Len(p) => SubSeq(p, n + 1, Len(p)) = <<>>
  BY <1>1, SubSeqEmpty
<1>5. Prefix(p, n) \o SubSeq(p, n + 1, Len(p)) = p
  <2>1. /\ 1 \in 1..Len(p) + 1
        /\ n \in (1 - 1)..Len(p)
        /\ Len(p) \in n..Len(p)
    BY <1>1
  <2>2. SubSeq(p, 1, n) \o SubSeq(p, n + 1, Len(p)) = SubSeq(p, 1, Len(p))
    BY <2>1, ConcatAdjacentSubSeq
  <2>3. QED
    BY <2>2, SubSeqFull DEF Prefix
<1>6. QED
  BY <1>2, <1>3, <1>4, <1>5

\* Putting a byte into the pipe appends it to the concatenation.
LEMMA AppendLast ==
    ASSUME NEW S, NEW b \in Seq(S), NEW p \in Seq(S), NEW x \in S
    PROVE  b \o Append(p, x) = Append(b \o p, x)
<1>1. Append(p, x) = p \o <<x>> /\ <<x>> \in Seq(S)
  BY AppendIsConcat
<1>2. b \o p \in Seq(S)
  BY ConcatProperties
<1>3. Append(b \o p, x) = (b \o p) \o <<x>>
  BY <1>2, AppendIsConcat
<1>4. QED
  BY <1>1, <1>3, ConcatAssociative

\* pollfds_remove: the entries that are left are entries of the old array, and
\* only the removed one is missing.
LEMMA RemoveLemma ==
    ASSUME NEW S, NEW q \in Seq(S), NEW j \in 1..Len(q), NEW r,
           r = Prefix([q EXCEPT ![j] = q[Len(q)]], Len(q) - 1)
    PROVE  /\ r \in Seq(S)
           /\ Len(r) = Len(q) - 1
           /\ \A k \in 1..Len(r) : r[k] = IF k = j THEN q[Len(q)] ELSE q[k]
<1> DEFINE e == [q EXCEPT ![j] = q[Len(q)]]
<1>1. Len(q) \in Nat /\ q[Len(q)] \in S
  BY LenProperties, ElementOfSeq
<1>2. /\ e \in Seq(S)
      /\ Len(e) = Len(q)
      /\ \A k \in 1..Len(q) : e[k] = IF k = j THEN q[Len(q)] ELSE q[k]
  BY <1>1, ExceptSeq
<1> DEFINE n == Len(q) - 1
<1>3. n \in Int /\ 1 \in Int /\ n >= 0 /\ n - 1 + 1 = n
  BY <1>1
<1>4. \A k \in 1..n : e[k] \in S
  BY <1>1, <1>2, ElementOfSeq
<1>5. r = SubSeq(e, 1, n)
  BY DEF Prefix
<1>6. \A k \in 1..n : e[k] = IF k = j THEN q[Len(q)] ELSE q[k]
  BY <1>1, <1>2
<1> HIDE DEF e, n
<1>7. /\ SubSeq(e, 1, n) \in Seq(S)
      /\ Len(SubSeq(e, 1, n)) = IF 1 <= n THEN n - 1 + 1 ELSE 0
      /\ \A k \in 1..(n - 1 + 1) : SubSeq(e, 1, n)[k] = e[1 + k - 1]
  BY <1>3, <1>4, SubSeqProperties
<1>8. r \in Seq(S) /\ Len(r) = n
  <2>1. (IF 1 <= n THEN n - 1 + 1 ELSE 0) = n
    BY <1>3
  <2>2. QED
    BY <1>5, <1>7, <2>1, Zenon
<1>9. \A k \in 1..n : r[k] = e[k]
  <2> TAKE k \in 1..n
  <2>1. k \in 1..(n - 1 + 1) /\ 1 + k - 1 = k
    BY <1>3
  <2>2. QED
    BY <1>5, <1>7, <2>1
<1>10. QED
  BY <1>6, <1>8, <1>9 DEF n

-----------------------------------------------------------------------------
(* Type correctness *)

LEMMA InitInv == Init => IInv
<1>1. SUFFICES ASSUME Init PROVE IInv
  OBVIOUS
<1>2. TypeOK
  <2>1. <<>> \in Seq(Byte) /\ <<>> \in Seq(PollFd)
    BY EmptySeq
  <2>2. /\ held \in [Processes -> SUBSET Ends]
        /\ pipe \in [Streams -> Seq(Byte)]
        /\ written \in [Outputs -> Seq(Byte)]
        /\ buf \in [Outputs -> Seq(Byte)]
    BY <1>1, <2>1 DEF Init
  <2>3. /\ offset \in Nat /\ i \in Nat \ {0}
        /\ consumed \in Seq(Byte) /\ fds \in Seq(PollFd)
    BY <1>1, <2>1 DEF Init
  <2>4. /\ command \in Commands /\ sawEof \in BOOLEAN
        /\ error \in Failure \cup {"none"}
        /\ result \in Statuses \cup {"none"} /\ status \in Statuses \cup {"none"}
        /\ prog \in {"none", "ended", "reaped"} \cup Alive
    BY <1>1, Zenon DEF Init
  <2>5. pc \in {"pipes", "locate", "stdin", "fork", "buffers", "poll", "scan",
               "write", "wait", "returned", "threw", "killed"}
    BY <1>1 DEF Init
  <2>6. QED
    BY <2>2, <2>3, <2>4, <2>5, Zenon DEF TypeOK
<1>3. Entries /\ Fresh /\ Eof /\ Writers
  BY <1>1 DEF Init, Entries, Early, Listed, Fresh, Eof, Writers, Outputs
<1>4. BufferRoom /\ StreamIntact
  BY <1>1, RunCommandAssumption DEF Init, BufferRoom, StreamIntact, Outputs, Streams
<1>5. QED
  BY <1>2, <1>3, <1>4 DEF IInv

\* Removing the current entry, or going on to the next, keeps the types.
LEMMA RemoveType ==
    ASSUME TypeOK, i <= Len(fds), RemoveEntry
    PROVE  /\ fds' \in Seq(PollFd) /\ i' \in Nat \ {0}
           /\ Len(fds') = Len(fds) - 1
           /\ \A k \in 1..Len(fds') :
                 fds'[k] = IF k = i THEN fds[Len(fds)] ELSE fds[k]
<1>1. /\ fds \in Seq(PollFd) /\ i \in 1..Len(fds)
      /\ i' = i /\ i' \in Nat \ {0}
  BY LenProperties DEF TypeOK, RemoveEntry
<1>2. fds' = Prefix([fds EXCEPT ![i] = fds[Len(fds)]], Len(fds) - 1)
  BY DEF RemoveEntry
<1>3. fds' \in Seq(PollFd)
  BY ONLY <1>1, <1>2, RemoveLemma
<1>4. Len(fds') = Len(fds) - 1
  BY ONLY <1>1, <1>2, RemoveLemma
<1>5. \A k \in 1..Len(fds') : fds'[k] = IF k = i THEN fds[Len(fds)] ELSE fds[k]
  BY ONLY <1>1, <1>2, RemoveLemma
<1>6. QED
  BY <1>1, <1>3, <1>4, <1>5

LEMMA HupType ==
    ASSUME TypeOK, i <= Len(fds), HandleHup
    PROVE  fds' \in Seq(PollFd) /\ i' \in Nat \ {0}
<1>1. CASE RemoveEntry
  BY <1>1, RemoveType
<1>2. CASE NextEntry
  BY <1>2 DEF NextEntry, TypeOK
<1>3. QED
  BY <1>1, <1>2 DEF HandleHup

LEMMA ThrowType ==
    ASSUME TypeOK, NEW e \in Failure, Throw(e)
    PROVE  /\ pc' = "threw" /\ error' \in Failure \cup {"none"}
           /\ held' \in [Processes -> SUBSET Ends]
BY DEF TypeOK, Throw

LEMMA EmitType ==
    ASSUME TypeOK, NEW s \in Outputs, NEW b \in Byte, Emit(s, b)
    PROVE  pipe' \in [Streams -> Seq(Byte)] /\ written' \in [Outputs -> Seq(Byte)]
BY AppendProperties DEF TypeOK, Emit, Streams

LEMMA ReventsType == \A s : Revents(s) \subseteq Event
BY DEF Revents, Event

\* A read moves what is in the pipe to the end of the buffer; unless it fills the
\* buffer, it takes everything.
LEMMA ReadFacts ==
    ASSUME TypeOK, BufferRoom, NEW s \in Outputs, ReadOutput(s)
    PROVE  /\ buf' \in [Outputs -> Seq(Byte)]
           /\ pipe' \in [Streams -> Seq(Byte)]
           /\ buf'[s] \o pipe'[s] = buf[s] \o pipe[s]
           /\ Len(buf'[s]) <= BufferSize
           /\ pc' = "threw" <=> Len(buf'[s]) = BufferSize
           /\ pc' # "threw" => pipe'[s] = <<>>
           /\ \A t \in Outputs \ {s} : pipe'[t] = pipe[t] /\ buf'[t] = buf[t]
<1> DEFINE n == Smaller(Len(pipe[s]), BufferSize - Len(buf[s]))
<1>1. /\ buf' = [buf EXCEPT ![s] = @ \o Prefix(pipe[s], n)]
      /\ pipe' = [pipe EXCEPT ![s] = SubSeq(@, n + 1, Len(@))]
      /\ pc' = "threw" <=> Len(buf[s]) + n = BufferSize
  BY DEF ReadOutput, Scanning, Throw, Filled, IsFull
<1>2. s \in Streams /\ pipe[s] \in Seq(Byte) /\ buf[s] \in Seq(Byte)
  BY DEF TypeOK, Streams
<1>3. Len(pipe[s]) \in Nat /\ Len(buf[s]) \in Nat /\ Len(buf[s]) <= BufferSize
      /\ BufferSize \in Nat
  BY <1>2, LenProperties, RunCommandAssumption DEF BufferRoom
<1>4. n \in 0..Len(pipe[s])
  BY <1>3, SmallerBound
<1>5. Len(buf[s]) + n <= BufferSize
      /\ (n = Len(pipe[s]) \/ Len(buf[s]) + n = BufferSize)
  BY <1>3, SmallerBound
<1> HIDE DEF n
<1> DEFINE h == Prefix(pipe[s], n)
           t == SubSeq(pipe[s], n + 1, Len(pipe[s]))
<1>6. /\ h \in Seq(Byte) /\ t \in Seq(Byte) /\ Len(h) = n /\ h \o t = pipe[s]
      /\ n = Len(pipe[s]) => t = <<>>
  BY ONLY <1>2, <1>4, SplitLemma
<1>7. /\ buf' = [buf EXCEPT ![s] = buf[s] \o h]
      /\ pipe' = [pipe EXCEPT ![s] = t]
  BY <1>1
<1> HIDE DEF h, t
<1>8. /\ buf[s] \o h \in Seq(Byte)
      /\ Len(buf[s] \o h) = Len(buf[s]) + n
      /\ (buf[s] \o h) \o t = buf[s] \o pipe[s]
  <2> DEFINE b == buf[s]
  <2>1. b \in Seq(Byte) /\ h \in Seq(Byte) /\ t \in Seq(Byte)
    BY <1>2, <1>6
  <2> HIDE DEF b
  <2>2. b \o h \in Seq(Byte) /\ Len(b \o h) = Len(b) + Len(h)
    BY ONLY <2>1, ConcatProperties, SMT
  <2>3. (b \o h) \o t = b \o (h \o t)
    BY ONLY <2>1, ConcatAssociative, SMT
  <2>4. (b \o h) \o t = b \o pipe[s]
    BY <1>6, <2>3, Zenon
  <2>5. QED
    BY <1>6, <2>2, <2>4 DEF b
<1>9. /\ buf'[s] = buf[s] \o h
      /\ pipe'[s] = t
      /\ \A u \in Outputs \ {s} : pipe'[u] = pipe[u] /\ buf'[u] = buf[u]
  BY <1>2, <1>7 DEF TypeOK, Streams
<1>10. buf' \in [Outputs -> Seq(Byte)] /\ pipe' \in [Streams -> Seq(Byte)]
  BY <1>6, <1>7, <1>8 DEF TypeOK
<1>11. QED
  BY <1>1, <1>5, <1>6, <1>8, <1>9, <1>10

LEMMA TypeStep == IInv /\ [Next]_vars => TypeOK'
<1> SUFFICES ASSUME IInv, [Next]_vars PROVE TypeOK'
  OBVIOUS
<1> USE RunCommandAssumption
<1>0. TypeOK /\ Entries
  BY DEF IInv
<1>1. CASE CreatePipes
  <2>1. Outputs \X {"r", "w"} \in SUBSET Ends
    BY DEF Ends, Streams
  <2>2. CASE Throw("can't create pipe")
    BY <1>0, <1>1, <2>2, ThrowType DEF CreatePipes, TypeOK, Failure, loopVars,
       dataVars, childVars
  <2>3. CASE held' = [held EXCEPT !["parent"] = Outputs \X {"r", "w"}]
             /\ pc' = "locate" /\ UNCHANGED error
    BY <1>0, <1>1, <2>1, <2>3 DEF CreatePipes, TypeOK, loopVars, dataVars, childVars
  <2>4. QED
    BY <1>1, <2>2, <2>3 DEF CreatePipes
<1>2. CASE LocateProgram
  BY <1>0, <1>2, ThrowType DEF LocateProgram, TypeOK, Failure, loopVars, dataVars,
     childVars
<1>3. CASE OpenInput
  <2>1. {"in"} \X {"r", "w"} \in SUBSET Ends
    BY DEF Ends, Streams
  <2>2. CASE Throw("can't create pipe")
    BY <1>0, <1>3, <2>2, ThrowType DEF OpenInput, TypeOK, Failure, loopVars,
       dataVars, childVars
  <2>3. CASE Throw("can't open input")
    BY <1>0, <1>3, <2>3, ThrowType DEF OpenInput, TypeOK, Failure, loopVars,
       dataVars, childVars
  <2>4. CASE pc' = "fork" /\ UNCHANGED error
             /\ held' = IF command.input # <<>>
                        THEN [held EXCEPT !["parent"] = @ \cup {"in"} \X {"r", "w"}]
                        ELSE held
    <3>1. held' \in [Processes -> SUBSET Ends]
      BY <1>0, <2>1, <2>4 DEF TypeOK
    <3>2. QED
      BY <1>0, <1>3, <2>4, <3>1 DEF OpenInput, TypeOK, loopVars, dataVars, childVars
  <2>5. QED
    BY <1>3, <2>2, <2>3, <2>4 DEF OpenInput
<1>4. CASE Fork
  BY <1>0, <1>4, ThrowType DEF Fork, TypeOK, Failure, loopVars, dataVars, childVars,
     Alive, Processes
<1>5. CASE CreateBuffers
  <2>1. CASE Throw("can't allocate buffer") /\ UNCHANGED fds
    BY <1>0, <1>5, <2>1, ThrowType DEF CreateBuffers, TypeOK, Failure, loopVars,
       dataVars, childVars
  <2>2. CASE pc' = "poll" /\ UNCHANGED <<error, held>>
             /\ fds' = <<Watch("out"), Watch("err")>> \o
                       (IF command.input # <<>> THEN <<Watch("in")>> ELSE <<>>)
    <3>1. \A s \in Streams : Watch(s) \in PollFd
      BY DEF Watch, PollFd
    <3>2. fds' \in Seq(PollFd)
      BY <2>2, <3>1, ConcatProperties, EmptySeq DEF Streams, Outputs
    <3>3. QED
      BY <1>0, <1>5, <2>2, <3>2 DEF CreateBuffers, TypeOK, dataVars, childVars
  <2>3. QED
    BY <1>5, <2>1, <2>2 DEF CreateBuffers
<1>6. CASE Poll
  <2>1. \A k \in 1..Len(fds) :
           [fds[k] EXCEPT !.revents = Revents(fds[k].stream)] \in PollFd
    <3> TAKE k \in 1..Len(fds)
    <3>1. fds[k] \in PollFd
      BY <1>0, ElementOfSeq DEF TypeOK
    <3>2. QED
      BY <3>1, ReventsType DEF PollFd
  <2>2. fds' \in Seq(PollFd)
    BY <1>0, <1>6, <2>1, LenProperties DEF Poll, TypeOK
  <2>3. /\ i' = 1 /\ pc' = "scan"
        /\ UNCHANGED <<command, error, result, held, dataVars, childVars>>
    BY <1>6 DEF Poll
  <2>4. QED
    BY <1>0, <2>2, <2>3 DEF TypeOK, dataVars, childVars
<1>7. CASE PollFails
  BY <1>0, <1>7, ThrowType DEF PollFails, TypeOK, Failure, loopVars, dataVars,
     childVars
<1>8. ASSUME NEW s \in Outputs, ReadOutput(s) PROVE TypeOK'
  <2>4. /\ buf' \in [Outputs -> Seq(Byte)]
        /\ pipe' \in [Streams -> Seq(Byte)]
    BY <1>8, ReadFacts DEF IInv
  <2>5. CASE Throw("buffer full") /\ UNCHANGED loopVars
    BY <1>0, <1>8, <2>4, <2>5, ThrowType DEF ReadOutput, TypeOK, Failure, loopVars,
       childVars
  <2>6. CASE HandleHup /\ UNCHANGED <<pc, error, held>>
    BY <1>0, <1>8, <2>4, <2>6, HupType DEF ReadOutput, Scanning, TypeOK, childVars
  <2>7. QED
    BY <1>8, <2>5, <2>6 DEF ReadOutput
<1>9. ASSUME NEW s \in Outputs, ReadFails(s) PROVE TypeOK'
  <2>1. Throw("read error")
    BY <1>9 DEF ReadFails
  <2>2. QED
    BY <1>0, <1>9, <2>1, ThrowType DEF ReadFails, TypeOK, Failure, loopVars,
       dataVars, childVars
<1>10. CASE PassEntry
  BY <1>0, <1>10, HupType DEF PassEntry, TypeOK, dataVars, childVars
<1>11. CASE StartWrite
  BY <1>0, <1>11 DEF StartWrite, TypeOK, loopVars, dataVars, childVars
<1>12. CASE WriteByte
  <2>1. i <= Len(fds) /\ offset + 1 \in 1..Len(command.input)
        /\ command.input \in Seq(Byte)
    BY <1>0, <1>12, ElementOfSeq, LenProperties
       DEF WriteByte, NextByte, IsLast, Entries, Listed, TypeOK, CommandType
  <2>2. pipe' \in [Streams -> Seq(Byte)] /\ offset' \in Nat
    BY <1>0, <1>12, <2>1, ElementOfSeq, AppendProperties
       DEF WriteByte, NextByte, IsLast, TypeOK, Streams
  <2>3. CASE RemoveEntry /\ held' = [held EXCEPT !["parent"] = @ \ {<<"in", "w">>}]
             /\ pc' = "scan"
    BY <1>0, <1>12, <2>1, <2>2, <2>3, RemoveType
       DEF WriteByte, NextByte, IsLast, TypeOK, childVars
  <2>4. CASE held' = held /\ UNCHANGED <<pc, loopVars>>
    BY <1>0, <1>12, <2>2, <2>4 DEF WriteByte, NextByte, IsLast, TypeOK, loopVars, childVars
  <2>5. CASE held' = held /\ NextEntry /\ pc' = "scan"
    BY <1>0, <1>12, <2>2, <2>5 DEF WriteByte, NextByte, IsLast, NextEntry, TypeOK, childVars
  <2>6. QED
    BY <1>12, <2>3, <2>4, <2>5 DEF WriteByte
<1>13. CASE WriteNoReader
  <2>1. CASE Throw("write error")
    BY <1>0, <1>13, <2>1, ThrowType DEF WriteNoReader, TypeOK, Failure, loopVars,
       dataVars, childVars
  <2>2. CASE pc' = "killed" /\ held' = [held EXCEPT !["parent"] = {}]
             /\ UNCHANGED error
    BY <1>0, <1>13, <2>2 DEF WriteNoReader, TypeOK, loopVars, dataVars, childVars
  <2>3. QED
    BY <1>13, <2>1, <2>2 DEF WriteNoReader
<1>14. CASE EndScan
  BY <1>0, <1>14 DEF EndScan, TypeOK, loopVars, dataVars, childVars
<1>15. CASE Return
  BY <1>0, <1>15 DEF Return, TypeOK, loopVars, dataVars
<1>16. CASE ChildExec
  BY <1>0, <1>16 DEF ChildExec, TypeOK, loopVars, dataVars, Alive
<1>17. CASE ChildCannotExec
  <2>1. CASE \E b \in Byte : Emit("err", b) /\ prog' = "failing"
                            /\ UNCHANGED <<held, status>>
    BY <1>0, <1>17, <2>1, EmitType DEF ChildCannotExec, TypeOK, loopVars, Alive, Outputs
  <2>2. CASE UNCHANGED <<pipe, written>> /\ prog' = "failing"
             /\ UNCHANGED <<held, status>>
    BY <1>0, <1>17, <2>2 DEF ChildCannotExec, TypeOK, loopVars, Alive
  <2>3. CASE UNCHANGED <<pipe, written>> /\ End("SIGPIPE", {})
    BY <1>0, <1>17, <2>3 DEF ChildCannotExec, End, TypeOK, loopVars
  <2>4. QED
    BY <1>17, <2>1, <2>2, <2>3 DEF ChildCannotExec
<1>18. CASE ChildGivesUp
  BY <1>0, <1>18 DEF ChildGivesUp, End, TypeOK, loopVars, dataVars
<1>19. CASE BeginRead
  BY <1>0, <1>19 DEF BeginRead, TypeOK, loopVars, dataVars, Alive
<1>20. CASE FinishRead
  <2>1. /\ pipe["in"] \in Seq(Byte) /\ pipe["in"] # <<>>
        /\ consumed' = Append(consumed, Head(pipe["in"]))
        /\ pipe' = [pipe EXCEPT !["in"] = Tail(@)]
    BY <1>0, <1>20 DEF FinishRead, TypeOK, Streams
  <2>2. pipe' \in [Streams -> Seq(Byte)] /\ consumed' \in Seq(Byte)
    BY <1>0, <2>1, HeadTailProperties, AppendProperties DEF TypeOK
  <2>3. QED
    BY <1>0, <1>20, <2>2 DEF FinishRead, TypeOK, loopVars, Alive
<1>21. CASE ReadEof
  BY <1>0, <1>21 DEF ReadEof, TypeOK, loopVars, Alive
<1>22. ASSUME NEW s \in Outputs, BeginWrite(s) PROVE TypeOK'
  BY <1>0, <1>22 DEF BeginWrite, TypeOK, loopVars, dataVars, Alive
<1>23. ASSUME NEW s \in Outputs, NEW b \in Byte, FinishWrite(s, b) PROVE TypeOK'
  BY <1>0, <1>23, EmitType DEF FinishWrite, TypeOK, loopVars, Alive
<1>24. ASSUME NEW s \in Outputs, WriteBroken(s) PROVE TypeOK'
  BY <1>0, <1>24 DEF WriteBroken, End, TypeOK, loopVars, dataVars, Alive
<1>25. ASSUME NEW e \in Ends, CloseEnd(e) PROVE TypeOK'
  BY <1>0, <1>25 DEF CloseEnd, TypeOK, loopVars, dataVars, childVars
<1>26. ASSUME NEW st \in Statuses, NEW kept \in SUBSET Ends, Exit(st, kept)
       PROVE  TypeOK'
  BY <1>0, <1>26 DEF Exit, End, TypeOK, loopVars, dataVars
<1>27. ASSUME NEW e \in Ends, HeirCloses(e) PROVE TypeOK'
  BY <1>0, <1>27 DEF HeirCloses, TypeOK, loopVars, dataVars, childVars
<1>28. ASSUME NEW s \in Outputs, NEW b \in Byte, HeirWrite(s, b) PROVE TypeOK'
  BY <1>0, <1>28, EmitType DEF HeirWrite, TypeOK, loopVars, childVars
<1>29. ASSUME NEW st \in Signals, Killed(st) PROVE TypeOK'
  BY <1>0, <1>29 DEF Killed, End, TypeOK, loopVars, dataVars
<1>30. CASE Terminated \/ UNCHANGED vars
  BY <1>0, <1>30 DEF Terminated, vars, TypeOK, loopVars, dataVars, childVars
<1>31. QED
  BY <1>1, <1>2, <1>3, <1>4, <1>5, <1>6, <1>7, <1>8, <1>9, <1>10, <1>11, <1>12,
     <1>13, <1>14, <1>15, <1>16, <1>17, <1>18, <1>19, <1>20, <1>21, <1>22, <1>23,
     <1>24, <1>25, <1>26, <1>27, <1>28, <1>29, <1>30
     DEF Next, Parent, Advance, Program, Heir

-----------------------------------------------------------------------------
(* The pollfd array *)

Distinct == \A k, l \in 1..Len(fds) : fds[k].stream = fds[l].stream => k = l

\* RemoveEntry loses the current entry and no other, and moves none before it.
LEMMA RemoveKeeps ==
    ASSUME TypeOK, Distinct, i <= Len(fds), RemoveEntry
    PROVE  /\ \A k \in 1..Len(fds') : \E l \in 1..Len(fds) : l # i /\ fds'[k] = fds[l]
           /\ \A l \in 1..Len(fds) : l # i => \E k \in 1..Len(fds') : fds'[k] = fds[l]
           /\ \A k \in i..Len(fds') : \E l \in (i + 1)..Len(fds) : fds'[k] = fds[l]
           /\ Distinct'
<1>1. /\ Len(fds) \in Nat /\ i \in 1..Len(fds) /\ i' = i
      /\ Len(fds') = Len(fds) - 1
      /\ \A k \in 1..Len(fds') : fds'[k] = IF k = i THEN fds[Len(fds)] ELSE fds[k]
  <2>1. Len(fds) \in Nat /\ i \in 1..Len(fds) /\ i' = i
    BY LenProperties DEF TypeOK, RemoveEntry
  <2>2. QED
    BY <2>1, RemoveType
<1>2. ASSUME NEW k \in 1..Len(fds')
      PROVE  \E l \in 1..Len(fds) : l # i /\ fds'[k] = fds[l]
  <2>1. CASE k = i
    BY <1>1, <2>1
  <2>2. CASE k # i
    BY <1>1, <2>2
  <2>3. QED
    BY <2>1, <2>2
<1>3. ASSUME NEW l \in 1..Len(fds), l # i
      PROVE  \E k \in 1..Len(fds') : fds'[k] = fds[l]
  <2>1. CASE l = Len(fds)
    BY <1>1, <1>3, <2>1
  <2>2. CASE l # Len(fds)
    BY <1>1, <1>3, <2>2
  <2>3. QED
    BY <2>1, <2>2
<1>4. ASSUME NEW k \in i..Len(fds')
      PROVE  \E l \in (i + 1)..Len(fds) : fds'[k] = fds[l]
  <2>1. CASE k = i
    BY <1>1, <2>1
  <2>2. CASE k # i
    BY <1>1, <2>2
  <2>3. QED
    BY <2>1, <2>2
<1>5. ASSUME NEW k \in 1..Len(fds'), NEW l \in 1..Len(fds'),
             fds'[k].stream = fds'[l].stream
      PROVE  k = l
  <2>1. CASE k = i
    BY <1>1, <1>5, <2>1 DEF Distinct
  <2>2. CASE l = i
    BY <1>1, <1>5, <2>2 DEF Distinct
  <2>3. CASE k # i /\ l # i
    BY <1>1, <1>5, <2>3 DEF Distinct
  <2>4. QED
    BY <2>1, <2>2, <2>3
<1>6. QED
  BY <1>2, <1>3, <1>4, <1>5 DEF Distinct

LEMMA WatchAll ==
    LET w == <<Watch("out"), Watch("err")>> \o <<Watch("in")>>
    IN  /\ Len(w) = 3
        /\ w[1].stream = "out" /\ w[2].stream = "err" /\ w[3].stream = "in"
<1>1. /\ <<Watch("out"), Watch("err")>> \in Seq(PollFd)
      /\ <<Watch("in")>> \in Seq(PollFd)
  BY DEF Watch, PollFd, Streams, Outputs
<1>2. QED
  BY <1>1, ConcatProperties DEF Watch

LEMMA PollEntries ==
    ASSUME TypeOK, Poll
    PROVE  /\ Len(fds') = Len(fds)
           /\ \A k \in 1..Len(fds) : /\ fds'[k].stream = fds[k].stream
                                     /\ fds'[k].revents = Revents(fds[k].stream)
<1>1. fds \in Seq(PollFd) /\ Len(fds) \in Nat
  BY LenProperties DEF TypeOK
<1>2. \A k \in 1..Len(fds) :
         fds'[k] = [fds[k] EXCEPT !.revents = Revents(fds[k].stream)]
  BY DEF Poll
<1>3. \A k \in 1..Len(fds) : fds[k] \in PollFd
  BY <1>1, ElementOfSeq
<1>4. Len(fds') = Len(fds)
  BY <1>1 DEF Poll
<1>5. QED
  BY <1>2, <1>3, <1>4 DEF PollFd

\* The steps that leave the array, the input and its offset alone.
LEMMA EntriesFrame ==
    ASSUME TypeOK, Entries, UNCHANGED <<command, offset, fds, i>>,
           pc' = pc \/ pc' \in {"threw", "killed"}, prog' = prog \/ prog # "none"
    PROVE  Entries'
BY DEF Entries, Listed, Early

\* An iteration that removes its entry or goes on, and leaves the input alone.
LEMMA EntriesHup ==
    ASSUME TypeOK, Entries, pc = "scan", pc' = "scan", i <= Len(fds), HandleHup,
           UNCHANGED <<command, offset, prog>>
    PROVE  Entries'
<1>1. Distinct
  BY DEF Entries, Distinct
<1>2. CASE RemoveEntry
  <2>1. Distinct'
    BY <1>1, <1>2, RemoveKeeps
  <2>2. Listed("in")' => Listed("in")
    BY <1>1, <1>2, RemoveKeeps DEF Listed
  <2>3. QED
    BY <2>1, <2>2 DEF Entries, Distinct, Early
<1>3. CASE NextEntry
  BY <1>3 DEF NextEntry, Entries, Early, Listed
<1>4. QED
  BY <1>2, <1>3 DEF HandleHup

LEMMA EntriesStep == IInv /\ [Next]_vars => Entries'
<1> SUFFICES ASSUME IInv, [Next]_vars PROVE Entries'
  OBVIOUS
<1>0. TypeOK /\ Entries
  BY DEF IInv
<1>1. CASE CreatePipes \/ LocateProgram \/ OpenInput
  BY <1>0, <1>1 DEF CreatePipes, LocateProgram, OpenInput, Throw, Entries, Early,
     Listed, loopVars, dataVars, childVars
<1>2. CASE Fork
  BY <1>0, <1>2 DEF Fork, Throw, Entries, Early, Listed, loopVars, dataVars
<1>3. CASE CreateBuffers
  <2>1. CASE Throw("can't allocate buffer") /\ UNCHANGED fds
    BY <1>0, <1>3, <2>1, EntriesFrame DEF CreateBuffers, Throw, dataVars, childVars
  <2>2. CASE pc' = "poll" /\ UNCHANGED <<error, held>>
             /\ fds' = <<Watch("out"), Watch("err")>> \o
                       (IF command.input # <<>> THEN <<Watch("in")>> ELSE <<>>)
    <3>1. offset' = 0 /\ command' = command /\ command.input \in Seq(Byte)
      BY <1>0, <1>3, RunCommandAssumption
         DEF CreateBuffers, Entries, Early, dataVars, TypeOK, CommandType
    <3>2. CASE command.input # <<>>
      <4>1. /\ Len(fds') = 3
            /\ fds'[1].stream = "out" /\ fds'[2].stream = "err"
            /\ fds'[3].stream = "in"
        BY <2>2, <3>2, WatchAll
      <4>2. Distinct'
        BY <4>1 DEF Distinct
      <4>3. offset' < Len(command'.input)
        BY <3>1, <3>2, EmptySeq
      <4>4. QED
        BY <2>2, <4>2, <4>3 DEF Entries, Distinct, Early
    <3>3. CASE command.input = <<>>
      <4>1. fds' = <<Watch("out"), Watch("err")>>
        BY <2>2, <3>3
      <4>2. Distinct' /\ ~Listed("in")'
        BY <4>1 DEF Distinct, Listed, Watch
      <4>3. QED
        BY <2>2, <4>2 DEF Entries, Distinct, Early
    <3>4. QED
      BY <3>2, <3>3
  <2>3. QED
    BY <1>3, <2>1, <2>2 DEF CreateBuffers
<1>4. CASE Poll
  <2>1. /\ Len(fds') = Len(fds)
        /\ \A k \in 1..Len(fds) : fds'[k].stream = fds[k].stream
    BY <1>0, <1>4, PollEntries
  <2>2. Distinct' /\ (Listed("in")' => Listed("in"))
    BY <1>0, <2>1 DEF Distinct, Listed, Entries
  <2>3. QED
    BY <1>0, <1>4, <2>2 DEF Poll, Entries, Distinct, Early, dataVars, childVars
<1>5. ASSUME NEW s \in Outputs, ReadOutput(s) PROVE Entries'
  <2>1. CASE Throw("buffer full") /\ UNCHANGED loopVars
    BY <1>0, <1>5, <2>1, EntriesFrame DEF ReadOutput, Throw, loopVars, childVars
  <2>2. CASE HandleHup /\ UNCHANGED <<pc, error, held>>
    BY <1>0, <1>5, <2>2, EntriesHup DEF ReadOutput, Scanning, childVars
  <2>3. QED
    BY <1>5, <2>1, <2>2 DEF ReadOutput
<1>6. CASE PassEntry
  BY <1>0, <1>6, EntriesHup DEF PassEntry, dataVars, childVars
<1>7. CASE StartWrite
  BY <1>0, <1>7 DEF StartWrite, Scanning, Here, Entries, Early, Listed, loopVars, dataVars,
     childVars
<1>8. CASE WriteByte
  <2>0. /\ pc = "write" /\ command' = command /\ prog' = prog /\ offset' = offset + 1
        /\ command.input \in Seq(Byte) /\ offset \in Nat
        /\ i \in 1..Len(fds) /\ fds[i].stream = "in" /\ Distinct
    BY <1>0, <1>8, RunCommandAssumption, LenProperties
       DEF WriteByte, NextByte, IsLast, TypeOK, CommandType, childVars, Entries, Distinct
  <2>1. CASE RemoveEntry /\ held' = [held EXCEPT !["parent"] = @ \ {<<"in", "w">>}]
             /\ pc' = "scan"
    <3>1. Distinct'
      BY <1>0, <2>0, <2>1, RemoveKeeps
    <3>2. ~Listed("in")'
      <4>1. SUFFICES ASSUME NEW k \in 1..Len(fds'), fds'[k].stream = "in" PROVE FALSE
        BY DEF Listed
      <4>2. PICK l \in 1..Len(fds) : l # i /\ fds'[k] = fds[l]
        <5>1. TypeOK /\ Distinct /\ i <= Len(fds) /\ RemoveEntry
          BY <1>0, <2>0, <2>1
        <5>2. QED
          BY ONLY <5>1, RemoveKeeps
      <4>3. QED
        BY <2>0, <4>1, <4>2 DEF Distinct
    <3>3. QED
      BY <2>1, <3>1, <3>2 DEF Entries, Distinct, Early
  <2>2. CASE offset + 1 # Len(command.input)
    <3>1. offset' < Len(command'.input)
      <4>1. offset < Len(command.input) /\ Len(command.input) \in Nat
        BY <1>0, <2>0, LenProperties DEF Entries, Listed
      <4>2. QED
        BY <2>0, <2>2, <4>1
    <3>2. UNCHANGED <<pc, loopVars>> \/ (NextEntry /\ pc' = "scan")
      BY <1>8, <2>2 DEF WriteByte, IsLast
    <3>3. QED
      BY <1>0, <2>0, <3>1, <3>2 DEF Entries, Early, Listed, loopVars, NextEntry
  <2>3. QED
    BY <1>8, <2>1, <2>2 DEF WriteByte, IsLast
<1>9. CASE EndScan
  BY <1>0, <1>9 DEF EndScan, Entries, Early, Listed, loopVars, dataVars, childVars
<1>10. CASE Return
  BY <1>0, <1>10 DEF Return, Entries, Early, Listed, loopVars, dataVars
<1>11. CASE PollFails \/ WriteNoReader \/ \E s \in Outputs : ReadFails(s)
  BY <1>0, <1>11, EntriesFrame DEF PollFails, WriteNoReader, ReadFails, Throw,
     loopVars, dataVars, childVars
<1>12. CASE Program
  <2>1. UNCHANGED <<command, offset, fds, i, pc>> /\ prog # "none"
    BY <1>12 DEF Program, ChildExec, ChildCannotExec, ChildGivesUp, BeginRead,
       FinishRead, ReadEof, BeginWrite, FinishWrite, WriteBroken, CloseEnd, Exit,
       loopVars, dataVars, Outputs
  <2>2. QED
    BY <1>0, <2>1, EntriesFrame
<1>13. CASE Heir
  BY <1>0, <1>13, EntriesFrame DEF Heir, HeirCloses, HeirWrite, loopVars, dataVars,
     childVars
<1>14. CASE \E st \in Signals : Killed(st)
  BY <1>0, <1>14, EntriesFrame DEF Killed, Alive, Outputs, loopVars, dataVars
<1>15. CASE Terminated \/ UNCHANGED vars
  BY <1>0, <1>15, EntriesFrame DEF Terminated, vars, loopVars, dataVars, childVars
<1>16. QED
  BY <1>1, <1>2, <1>3, <1>4, <1>5, <1>6, <1>7, <1>8, <1>9, <1>10, <1>11, <1>12,
     <1>13, <1>14, <1>15 DEF Next, Parent, Advance

-----------------------------------------------------------------------------
(* The end of an output stream *)

Loop == {"poll", "scan", "write", "wait", "returned"}

\* Steps that do not look at the array: no descriptor is opened, and nothing is
\* put into a pipe that nobody has open.
LEMMA EofFrame ==
    ASSUME TypeOK, Fresh, Eof, UNCHANGED <<fds, i>>,
           pc' \in Loop => pc \in Loop,
           pc' \in {"scan", "write"} => pc \in {"scan", "write"},
           \A s \in Outputs : Open(s, "w")' => Open(s, "w"),
           \A s \in Outputs : pipe'[s] = pipe[s] \/ Open(s, "w")
    PROVE  Fresh' /\ Eof'
<1>1. Fresh'
  BY DEF Fresh, FreshEntry
<1>2. Eof'
  BY DEF Eof, Loop, Listed, Drained
<1>3. QED
  BY <1>1, <1>2

\* An iteration that drops its entry on POLLHUP or goes on to the next.
LEMMA EofHup ==
    ASSUME TypeOK, Entries, Fresh, Eof, pc = "scan", pc' = "scan", held' = held,
           i <= Len(fds), HandleHup,
           \A s \in Outputs : s # fds[i].stream => pipe'[s] = pipe[s],
           /\ fds[i].stream \in Outputs
           /\ "HUP" \in fds[i].revents
           => pipe'[fds[i].stream] = <<>>
    PROVE  Fresh' /\ Eof'
<1>0. Distinct /\ Len(fds) \in Nat /\ i \in 1..Len(fds)
  BY LenProperties DEF Entries, Distinct, TypeOK
<1>1. \A s \in Outputs : Open(s, "w")' <=> Open(s, "w")
  BY DEF Open, Holds
<1>2. CASE RemoveEntry /\ "HUP" \in fds[i].revents
  <2>1. TypeOK /\ Distinct /\ i <= Len(fds) /\ RemoveEntry
    BY <1>0, <1>2
  <2>2. /\ \A l \in 1..Len(fds) : l # i => \E k \in 1..Len(fds') : fds'[k] = fds[l]
        /\ \A k \in i..Len(fds') : \E l \in (i + 1)..Len(fds) : fds'[k] = fds[l]
    BY ONLY <2>1, RemoveKeeps
  <2>3. i' = i
    BY <2>1 DEF RemoveEntry
  <2>4. ASSUME NEW k \in i'..Len(fds') PROVE FreshEntry(fds[k])'
    <3>1. PICK l \in (i + 1)..Len(fds) : fds'[k] = fds[l]
      BY <2>2, <2>3
    <3>2. l \in i..Len(fds) /\ fds[l].stream # fds[i].stream
      BY <1>0, <3>1 DEF Distinct
    <3>3. FreshEntry(fds[l])
      BY <3>2 DEF Fresh
    <3>4. QED
      BY <1>1, <3>1, <3>2, <3>3 DEF FreshEntry
  <2>5. ASSUME NEW s \in Outputs PROVE Listed(s)' \/ Drained(s)'
    <3>1. CASE s = fds[i].stream
      <4>1. FreshEntry(fds[i])
        BY <1>0 DEF Fresh
      <4>2. QED
        BY <1>1, <1>2, <3>1, <4>1 DEF FreshEntry, Drained
    <3>2. CASE s # fds[i].stream /\ Listed(s)
      BY <2>2, <3>2 DEF Listed
    <3>3. CASE s # fds[i].stream /\ Drained(s)
      BY <1>1, <3>3 DEF Drained
    <3>4. QED
      BY <3>1, <3>2, <3>3 DEF Eof
  <2>6. QED
    BY <2>4, <2>5 DEF Fresh, Eof
<1>3. CASE NextEntry
  <2>1. fds' = fds /\ i' = i + 1
    BY <1>3 DEF NextEntry
  <2>2. ASSUME NEW k \in i'..Len(fds') PROVE FreshEntry(fds[k])'
    <3>1. k \in i..Len(fds) /\ fds[k].stream # fds[i].stream
      BY <1>0, <2>1 DEF Distinct
    <3>2. FreshEntry(fds[k])
      BY <3>1 DEF Fresh
    <3>3. QED
      BY <1>1, <2>1, <3>1, <3>2 DEF FreshEntry
  <2>3. ASSUME NEW s \in Outputs PROVE Listed(s)' \/ Drained(s)'
    <3>1. CASE Listed(s)
      BY <2>1, <3>1 DEF Listed
    <3>2. CASE ~Listed(s)
      BY <1>0, <1>1, <3>2 DEF Eof, Listed, Drained
    <3>3. QED
      BY <3>1, <3>2
  <2>4. QED
    BY <2>2, <2>3 DEF Fresh, Eof
<1>4. QED
  BY <1>2, <1>3 DEF HandleHup, Here

\* What a program and its heirs do: they close descriptors, and what they write
\* goes to a stream they have open.
Others == \/ Program \/ Heir \/ (\E st \in Signals : Killed(st))
          \/ Terminated \/ UNCHANGED vars

LEMMA OthersOnlyClose ==
    ASSUME TypeOK, Others, NEW s, NEW e, Open(s, e)'
    PROVE  Open(s, e)
<1>1. \/ held' = held
      \/ \E x \in SUBSET Ends : held' = [held EXCEPT !["child"] = @ \ x]
      \/ \E x \in Ends : held' = [held EXCEPT !["heir"] = @ \ {x}]
      \/ \E x \in SUBSET held["child"] :
            held' = [held EXCEPT !["child"] = {}, !["heir"] = x]
  <2>1. CASE ChildExec
    <3>1. ChildDrops \in SUBSET Ends
      BY DEF ChildDrops, Ends, Streams, Outputs
    <3>2. QED
      BY <2>1, <3>1 DEF ChildExec
  <2>2. CASE \E x \in Ends : CloseEnd(x)
    BY <2>2 DEF CloseEnd
  <2>3. CASE ChildCannotExec \/ ChildGivesUp \/ \E x \in Outputs : WriteBroken(x)
    BY <2>3 DEF ChildCannotExec, ChildGivesUp, WriteBroken, End
  <2>4. CASE \/ \E st \in Signals : Killed(st)
             \/ \E st \in Statuses, kept \in SUBSET Ends : Exit(st, kept)
    BY <2>4 DEF Killed, Exit, End
  <2>5. CASE \E x \in Ends : HeirCloses(x)
    BY <2>5 DEF HeirCloses
  <2>6. CASE \/ BeginRead \/ FinishRead \/ ReadEof
             \/ \E x \in Outputs : BeginWrite(x) \/ \E b \in Byte : FinishWrite(x, b)
             \/ \E x \in Outputs, b \in Byte : HeirWrite(x, b)
             \/ Terminated \/ UNCHANGED vars
    BY <2>6 DEF BeginRead, FinishRead, ReadEof, BeginWrite, FinishWrite, HeirWrite,
       Terminated, vars
  <2>7. QED
    BY <2>1, <2>2, <2>3, <2>4, <2>5, <2>6 DEF Others, Program, Heir
<1>2. QED
  BY <1>1 DEF Open, Holds, TypeOK, Processes

LEMMA OthersEmit ==
    ASSUME TypeOK, Writers, Others
    PROVE  /\ buf' = buf
           /\ \/ UNCHANGED written /\ \A s \in Outputs : pipe'[s] = pipe[s]
              \/ \E s \in Outputs, b \in Byte : Emit(s, b) /\ Open(s, "w")
<1>1. CASE ChildCannotExec
  BY <1>1 DEF ChildCannotExec, Writers, Open, Processes, Outputs
<1>2. CASE \E s \in Outputs, b \in Byte : FinishWrite(s, b) \/ HeirWrite(s, b)
  BY <1>2 DEF FinishWrite, HeirWrite, Writers, Open, Processes
<1>3. CASE FinishRead
  BY <1>3 DEF FinishRead, TypeOK, Outputs, Streams
<1>4. CASE \/ ChildExec \/ ChildGivesUp \/ BeginRead \/ ReadEof
           \/ \E s \in Outputs : BeginWrite(s) \/ WriteBroken(s)
           \/ \E e \in Ends : CloseEnd(e) \/ HeirCloses(e)
           \/ \E st \in Statuses, kept \in SUBSET Ends : Exit(st, kept)
           \/ \E st \in Signals : Killed(st)
           \/ Terminated \/ UNCHANGED vars
  BY <1>4 DEF ChildExec, ChildGivesUp, BeginRead, ReadEof, BeginWrite, WriteBroken,
     CloseEnd, HeirCloses, Exit, Killed, Terminated, vars, dataVars
<1>5. QED
  BY <1>1, <1>2, <1>3, <1>4 DEF Others, Program, Heir

LEMMA EofStep == IInv /\ [Next]_vars => Fresh' /\ Eof'
<1> SUFFICES ASSUME IInv, [Next]_vars PROVE Fresh' /\ Eof'
  OBVIOUS
<1>0. TypeOK /\ Entries /\ Fresh /\ Eof /\ Writers
  BY DEF IInv
<1>1. ASSUME pc' \notin Loop PROVE Fresh' /\ Eof'
  BY <1>1 DEF Loop, Fresh, Eof
<1>2. CASE CreatePipes \/ LocateProgram \/ OpenInput \/ Fork
  BY <1>1, <1>2 DEF CreatePipes, LocateProgram, OpenInput, Fork, Throw, Loop
<1>3. CASE CreateBuffers
  <2>1. CASE pc' = "poll" /\ UNCHANGED <<error, held>>
             /\ fds' = <<Watch("out"), Watch("err")>> \o
                       (IF command.input # <<>> THEN <<Watch("in")>> ELSE <<>>)
    <3>1. Len(fds') >= 2 /\ fds'[1].stream = "out" /\ fds'[2].stream = "err"
          /\ Len(fds') \in Nat
      <4>1. CASE command.input # <<>>
        BY <2>1, <4>1, WatchAll
      <4>2. CASE command.input = <<>>
        BY <2>1, <4>2 DEF Watch
      <4>3. QED
        BY <4>1, <4>2
    <3>2. QED
      BY <2>1, <3>1 DEF Fresh, Eof, Listed, Outputs
  <2>2. QED
    BY <1>1, <1>3, <2>1 DEF CreateBuffers, Throw, Loop
<1>4. CASE Poll
  <2>1. /\ Len(fds') = Len(fds)
        /\ \A k \in 1..Len(fds) : /\ fds'[k].stream = fds[k].stream
                                  /\ fds'[k].revents = Revents(fds[k].stream)
    BY <1>0, <1>4, PollEntries
  <2>2. i' = 1 /\ held' = held /\ pipe' = pipe /\ pc = "poll" /\ pc' = "scan"
    BY <1>4 DEF Poll, dataVars
  <2>3. \A s \in Outputs : "HUP" \in Revents(s)
           => ~Open(s, "w") /\ ("IN" \in Revents(s) \/ pipe[s] = <<>>)
    BY DEF Revents, Outputs
  <2>4. Fresh'
    BY <2>1, <2>2, <2>3 DEF Fresh, FreshEntry, Open, Holds
  <2>5. Eof'
    BY <1>0, <2>1, <2>2 DEF Eof, Listed, Drained, Open, Holds
  <2>6. QED
    BY <2>4, <2>5
<1>5. ASSUME NEW s \in Outputs, ReadOutput(s) PROVE Fresh' /\ Eof'
  <2>1. CASE HandleHup /\ UNCHANGED <<pc, error, held>>
    <3>1. /\ pc = "scan" /\ pc' = "scan" /\ held' = held /\ i <= Len(fds)
          /\ fds[i].stream = s
      BY <1>5, <2>1 DEF ReadOutput, Scanning, Here
    <3>2. \A t \in Outputs : t # s => pipe'[t] = pipe[t]
      BY <1>0, <1>5 DEF ReadOutput, TypeOK, Streams
    <3>3. pipe'[s] = <<>>
      BY <1>5, <3>1, ReadFacts DEF IInv
    <3>4. QED
      BY <1>0, <2>1, <3>1, <3>2, <3>3, EofHup
  <2>2. QED
    BY <1>1, <1>5, <2>1 DEF ReadOutput, Throw, Loop
<1>6. CASE PassEntry
  <2>1. /\ pc = "scan" /\ pc' = "scan" /\ held' = held /\ pipe' = pipe
        /\ i <= Len(fds) /\ HandleHup /\ "IN" \notin fds[i].revents
    BY <1>6 DEF PassEntry, Here, dataVars
  <2>2. i \in i..Len(fds)
    BY <1>0, <2>1, LenProperties DEF TypeOK
  <2>3. fds[i].stream \in Outputs /\ "HUP" \in fds[i].revents
           => pipe'[fds[i].stream] = <<>>
    BY <1>0, <2>1, <2>2 DEF Fresh, FreshEntry
  <2>4. QED
    BY <1>0, <2>1, <2>3, EofHup
<1>7. CASE StartWrite \/ EndScan \/ Return
  <2>1. /\ UNCHANGED <<fds, i, pipe>> /\ pc \in Loop
        /\ pc' \in {"scan", "write"} => pc \in {"scan", "write"}
    BY <1>7 DEF StartWrite, EndScan, Return, Scanning, Loop, loopVars, dataVars
  <2>2. \A s \in Outputs : Open(s, "w")' => Open(s, "w")
    BY <1>0, <1>7 DEF StartWrite, EndScan, Return, Open, Holds, TypeOK
  <2>3. QED
    BY <1>0, <2>1, <2>2, EofFrame
<1>8. CASE WriteByte
  <2>1. \A s \in Outputs : pipe'[s] = pipe[s]
    BY <1>0, <1>8 DEF WriteByte, NextByte, IsLast, TypeOK, Outputs, Streams
  <2>2. \A s \in Outputs : Open(s, "w")' <=> Open(s, "w")
    BY <1>0, <1>8 DEF WriteByte, NextByte, IsLast, Open, Holds, TypeOK, Outputs, Processes
  <2>3. /\ pc = "write" /\ i <= Len(fds) /\ fds[i].stream = "in" /\ Distinct
        /\ pc' \in {"scan", "write"}
    BY <1>0, <1>8 DEF WriteByte, NextByte, IsLast, Entries, Distinct
  <2>4. CASE RemoveEntry
    <3>1. TypeOK /\ Distinct /\ i <= Len(fds) /\ RemoveEntry
      BY <1>0, <2>3, <2>4
    <3>2. /\ \A l \in 1..Len(fds) : l # i => \E k \in 1..Len(fds') : fds'[k] = fds[l]
          /\ \A k \in i..Len(fds') : \E l \in (i + 1)..Len(fds) : fds'[k] = fds[l]
      BY ONLY <3>1, RemoveKeeps
    <3>3. i' = i /\ i \in Nat
      BY <3>1 DEF RemoveEntry, TypeOK
    <3>4. Fresh'
      <4>1. SUFFICES ASSUME NEW k \in i..Len(fds') PROVE FreshEntry(fds[k])'
        BY <3>3 DEF Fresh
      <4>2. PICK l \in (i + 1)..Len(fds) : fds'[k] = fds[l]
        BY <3>2
      <4>3. l \in i..Len(fds)
        BY <3>3
      <4>4. FreshEntry(fds[l])
        BY <1>0, <2>3, <4>3 DEF Fresh
      <4>5. QED
        BY <2>1, <2>2, <4>2, <4>4 DEF FreshEntry
    <3>5. Eof'
      <4>1. \A s \in Outputs : Listed(s) => Listed(s)'
        BY <2>3, <3>2 DEF Listed, Outputs
      <4>2. \A s \in Outputs : Drained(s) => Drained(s)'
        BY <2>1, <2>2 DEF Drained
      <4>3. QED
        BY <1>0, <2>3, <4>1, <4>2 DEF Eof
    <3>6. QED
      BY <3>4, <3>5
  <2>5. CASE UNCHANGED loopVars \/ NextEntry
    <3>1. fds' = fds /\ i \in Nat /\ i' \in {i, i + 1}
      BY <1>0, <2>5 DEF loopVars, NextEntry, TypeOK
    <3>2. Fresh'
      <4>1. \A k \in i'..Len(fds) : k \in i..Len(fds)
        BY <3>1
      <4>2. QED
        BY <1>0, <2>1, <2>2, <2>3, <3>1, <4>1 DEF Fresh, FreshEntry
    <3>3. Eof'
      BY <1>0, <2>1, <2>2, <2>3, <3>1 DEF Eof, Listed, Drained
    <3>4. QED
      BY <3>2, <3>3
  <2>6. QED
    BY <1>8, <2>4, <2>5 DEF WriteByte
<1>9. CASE PollFails \/ WriteNoReader \/ \E s \in Outputs : ReadFails(s)
  BY <1>1, <1>9 DEF PollFails, WriteNoReader, ReadFails, Throw, Loop
<1>10. CASE Others
  <2>1. UNCHANGED <<fds, i, pc>>
    BY <1>10 DEF Others, Program, Heir, ChildExec, ChildCannotExec, ChildGivesUp, BeginRead,
       FinishRead, ReadEof, BeginWrite, FinishWrite, WriteBroken, CloseEnd, Exit,
       Killed, HeirCloses, HeirWrite, Terminated, vars, loopVars, dataVars
  <2>2. \A s \in Outputs : Open(s, "w")' => Open(s, "w")
    BY <1>0, <1>10, OthersOnlyClose
  <2>3. \A s \in Outputs : pipe'[s] = pipe[s] \/ Open(s, "w")
    BY <1>0, <1>10, OthersEmit DEF Emit, TypeOK, Outputs, Streams
  <2>4. QED
    BY <1>0, <2>1, <2>2, <2>3, EofFrame
<1>11. QED
  BY <1>2, <1>3, <1>4, <1>5, <1>6, <1>7, <1>8, <1>9, <1>10
     DEF Next, Parent, Advance, Others

-----------------------------------------------------------------------------
(* Who may write *)

LEMMA WritersStep == IInv /\ [Next]_vars => Writers'
<1> SUFFICES ASSUME IInv, [Next]_vars PROVE Writers'
  OBVIOUS
<1>0. TypeOK /\ Entries /\ Writers
  BY DEF IInv
<1>1. CASE CreatePipes \/ LocateProgram \/ OpenInput
  <2>1. prog' = "none"
    BY <1>0, <1>1 DEF CreatePipes, LocateProgram, OpenInput, Entries, Early, childVars
  <2>2. pc' = "threw" \/ Holds("parent", "err", "w")'
    <3>1. CASE CreatePipes
      BY <1>0, <3>1 DEF CreatePipes, Throw, Holds, TypeOK, Processes, Outputs
    <3>2. CASE LocateProgram
      BY <1>0, <3>2 DEF LocateProgram, Throw, Writers, Holds
    <3>3. CASE OpenInput
      BY <1>0, <3>3 DEF OpenInput, Throw, Writers, Holds, TypeOK, Processes
    <3>4. QED
      BY <1>1, <3>1, <3>2, <3>3
  <2>3. QED
    BY <2>1, <2>2 DEF Writers, Outputs
<1>2. CASE Fork
  BY <1>0, <1>2 DEF Fork, Throw, Writers, Holds, Entries, Early, TypeOK, Processes,
     Outputs
<1>3. CASE \/ CreateBuffers \/ Poll \/ PollFails \/ PassEntry \/ StartWrite
           \/ WriteByte \/ WriteNoReader \/ EndScan
           \/ \E s \in Outputs : ReadOutput(s) \/ ReadFails(s)
  <2>1. /\ UNCHANGED prog /\ held'["child"] = held["child"]
        /\ pc' \notin {"locate", "stdin", "fork"}
    BY <1>0, <1>3 DEF CreateBuffers, Poll, PollFails, PassEntry, StartWrite, WriteByte,
       WriteNoReader, EndScan, ReadOutput, ReadFails, Scanning, Throw, TypeOK,
       Processes, childVars
  <2>2. QED
    BY <1>0, <2>1 DEF Writers, Holds
<1>4. CASE Return
  BY <1>4 DEF Return, Writers, Outputs
<1>5. CASE ChildExec
  BY <1>0, <1>5 DEF ChildExec, Writers, Holds, TypeOK, Processes, Outputs
<1>6. CASE \E s \in Outputs : BeginWrite(s)
  BY <1>0, <1>6 DEF BeginWrite, Writers, Holds, Outputs
<1>7. CASE \/ BeginRead \/ FinishRead \/ ReadEof
           \/ \E s \in Outputs, b \in Byte : FinishWrite(s, b) \/ HeirWrite(s, b)
           \/ Terminated \/ UNCHANGED vars
  BY <1>0, <1>7 DEF BeginRead, FinishRead, ReadEof, FinishWrite, HeirWrite, Terminated,
     vars, childVars, Writers, Holds, Outputs
<1>8. CASE \/ ChildCannotExec \/ ChildGivesUp \/ \E s \in Outputs : WriteBroken(s)
           \/ \E st \in Statuses, kept \in SUBSET Ends : Exit(st, kept)
           \/ \E st \in Signals : Killed(st)
  <2>1. /\ prog' \in {"failing", "ended", "running"} /\ pc' = pc
        /\ held'["parent"] = held["parent"]
    BY <1>0, <1>8 DEF ChildCannotExec, ChildGivesUp, WriteBroken, Exit, Killed, End,
       TypeOK, Processes
  <2>2. QED
    BY <1>0, <2>1 DEF Writers, Holds, Outputs
<1>9. CASE \E e \in Ends : CloseEnd(e) \/ HeirCloses(e)
  BY <1>0, <1>9 DEF CloseEnd, HeirCloses, Writers, Holds, TypeOK, Processes, Outputs,
     childVars
<1>10. QED
  BY <1>1, <1>2, <1>3, <1>4, <1>5, <1>6, <1>7, <1>8, <1>9
     DEF Next, Parent, Advance, Program, Heir

-----------------------------------------------------------------------------
(* The bytes of a stream *)

LEMMA StreamStep == IInv /\ [Next]_vars => BufferRoom' /\ StreamIntact'
<1> SUFFICES ASSUME IInv, [Next]_vars PROVE BufferRoom' /\ StreamIntact'
  OBVIOUS
<1>0. TypeOK /\ Writers /\ BufferRoom /\ StreamIntact
  BY DEF IInv
<1>1. ASSUME UNCHANGED <<buf, written>>, \A s \in Outputs : pipe'[s] = pipe[s]
      PROVE  BufferRoom' /\ StreamIntact'
  BY <1>0, <1>1 DEF BufferRoom, StreamIntact
<1>2. ASSUME NEW s \in Outputs, ReadOutput(s) PROVE BufferRoom' /\ StreamIntact'
  <2>1. /\ buf'[s] \o pipe'[s] = buf[s] \o pipe[s] /\ Len(buf'[s]) <= BufferSize
        /\ \A t \in Outputs \ {s} : pipe'[t] = pipe[t] /\ buf'[t] = buf[t]
    BY <1>0, <1>2, ReadFacts
  <2>2. written' = written
    BY <1>2 DEF ReadOutput
  <2>3. QED
    BY <1>0, <2>1, <2>2 DEF BufferRoom, StreamIntact
<1>3. CASE WriteByte
  BY <1>0, <1>1, <1>3 DEF WriteByte, NextByte, IsLast, TypeOK, Outputs, Streams
<1>4. CASE \/ CreatePipes \/ LocateProgram \/ OpenInput \/ Fork \/ CreateBuffers
           \/ Poll \/ PollFails \/ PassEntry \/ StartWrite \/ WriteNoReader \/ EndScan
           \/ Return \/ \E s \in Outputs : ReadFails(s)
  BY <1>1, <1>4 DEF CreatePipes, LocateProgram, OpenInput, Fork, CreateBuffers, Poll,
     PollFails, PassEntry, StartWrite, WriteNoReader, EndScan, Return, ReadFails,
     dataVars
<1>5. CASE Others
  <2>1. CASE UNCHANGED written /\ \A s \in Outputs : pipe'[s] = pipe[s]
    BY <1>0, <1>1, <1>5, <2>1, OthersEmit
  <2>2. ASSUME NEW s \in Outputs, NEW b \in Byte, Emit(s, b)
        PROVE  BufferRoom' /\ StreamIntact'
    <3>1. buf' = buf
      BY <1>0, <1>5, OthersEmit
    <3>2. /\ pipe'[s] = Append(pipe[s], b) /\ written'[s] = Append(written[s], b)
          /\ \A t \in Outputs \ {s} : pipe'[t] = pipe[t] /\ written'[t] = written[t]
      BY <1>0, <2>2 DEF Emit, TypeOK, Streams
    <3>3. buf[s] \o Append(pipe[s], b) = Append(buf[s] \o pipe[s], b)
      <4> DEFINE u == buf[s]
                 p == pipe[s]
      <4>1. u \in Seq(Byte) /\ p \in Seq(Byte) /\ b \in Byte
        BY <1>0 DEF TypeOK, Streams
      <4> HIDE DEF u, p
      <4>2. u \o Append(p, b) = Append(u \o p, b)
        BY ONLY <4>1, AppendLast
      <4>3. QED
        BY <4>2 DEF u, p
    <3>4. QED
      BY <1>0, <3>1, <3>2, <3>3 DEF BufferRoom, StreamIntact
  <2>3. QED
    BY <1>0, <1>5, <2>1, <2>2, OthersEmit
<1>6. QED
  BY <1>2, <1>3, <1>4, <1>5 DEF Next, Parent, Advance, Others

-----------------------------------------------------------------------------
(* The theorems *)

LEMMA Invariance == Spec => []IInv
<1>1. IInv /\ [Next]_vars => IInv'
  BY TypeStep, EntriesStep, EofStep, WritersStep, StreamStep DEF IInv
<1>2. QED
  BY InitInv, <1>1, PTL DEF Spec

\* The model is type correct whatever the commands, the pipes and the kernel.
THEOREM TypeCorrect == Spec => []TypeOK
<1>1. IInv => TypeOK
  BY DEF IInv
<1>2. QED
  BY Invariance, <1>1, PTL

\* No byte the program writes is lost, duplicated or reordered between the pipe and
\* the buffer (Buffer::read, OS-Unix-run.cc:110-124).
THEOREM StreamsIntact == Spec => []StreamIntact
<1>1. IInv => StreamIntact
  BY DEF IInv
<1>2. QED
  BY Invariance, <1>1, PTL

\* The loop lets go of a stream only at its end (OS-Unix-run.cc:373-383).
THEOREM LoopWaitsForEof == Spec => []PolledUntilEof
<1>1. IInv => PolledUntilEof
  BY DEF IInv, Eof, PolledUntilEof, Listed, Drained
<1>2. QED
  BY Invariance, <1>1, PTL

\* What run_command returns is all the program and its heirs ever write
\* (OS-Unix-run.cc:354-398).
THEOREM OutputIsComplete == Spec => []OutputComplete
<1>1. IInv => OutputComplete
  <2>1. SUFFICES ASSUME IInv, pc = "returned", NEW s \in Outputs
                 PROVE  buf[s] = written[s]
    BY DEF OutputComplete, IInv, TypeOK
  <2>2. ~Listed(s)
    BY <2>1 DEF IInv, Entries, Listed
  <2>3. pipe[s] = <<>>
    BY <2>1, <2>2 DEF IInv, Eof, Drained
  <2>4. buf[s] \in Seq(Byte) /\ buf[s] \o pipe[s] = written[s]
    BY <2>1 DEF IInv, TypeOK, StreamIntact
  <2>5. QED
    BY <2>3, <2>4, ConcatEmptySeq
<1>2. QED
  BY Invariance, <1>1, PTL

-----------------------------------------------------------------------------
(* Standard input and the exit status *)

\* How InputIntact and EofMeansAll come about: nihtest keeps the write end open as
\* long as input is left, and a program that has seen the end reads no more.
Feeding == {"fork", "buffers", "poll", "scan", "write", "wait"}

InputInv ==
    /\ InputIntact
    /\ EofMeansAll
    /\ offset <= Len(command.input)
    /\ pc \in Feeding /\ offset < Len(command.input) => Holds("parent", "in", "w")
    /\ prog = "reading" => ~sawEof

LEMMA TakeFirst ==
    ASSUME NEW S, NEW b \in Seq(S), NEW p \in Seq(S), p # <<>>
    PROVE  Append(b, Head(p)) \o Tail(p) = b \o p
<1> DEFINE h == <<Head(p)>>
           t == Tail(p)
<1>1. Head(p) \in S /\ t \in Seq(S) /\ Len(p) \in Nat /\ Len(p) # 0
  BY HeadTailProperties, EmptySeq, LenProperties
<1>2. h \in Seq(S) /\ Append(b, Head(p)) = b \o h
  BY <1>1, AppendIsConcat
<1>3. h \o t = p
  <2>1. /\ 1 \in 1..Len(p) /\ Len(p) \in 1..Len(p)
    BY <1>1
  <2>2. SubSeq(p, 1, Len(p)) = <<p[1]>> \o SubSeq(p, 2, Len(p))
    BY <2>1, SubSeqRecursiveFirst
  <2>3. Head(p) = p[1] /\ Tail(p) = SubSeq(p, 2, Len(p))
    BY <1>1, TailIsSubSeq
  <2>4. QED
    BY <2>2, <2>3, SubSeqFull
<1>4. b \in Seq(S) /\ h \in Seq(S) /\ t \in Seq(S)
  BY <1>1, <1>2
<1> HIDE DEF h, t
<1>5. (b \o h) \o t = b \o (h \o t)
  BY ONLY <1>4, ConcatAssociative, SMT
<1>6. QED
  BY <1>2, <1>3, <1>5, Zenon DEF t

LEMMA NextPrefix ==
    ASSUME NEW S, NEW q \in Seq(S), NEW n \in Nat, n < Len(q)
    PROVE  /\ Prefix(q, n) \in Seq(S)
           /\ Prefix(q, n + 1) = Append(Prefix(q, n), q[n + 1])
<1>1. Len(q) \in Nat /\ n + 1 \in 1..Len(q) /\ 1 \in 1..Len(q) /\ n + 1 - 1 = n
  BY LenProperties
<1>2. q[n + 1] \in S /\ Prefix(q, n) \in Seq(S)
  BY <1>1, ElementOfSeq, SplitLemma
<1>3. SubSeq(q, 1, n + 1) = SubSeq(q, 1, n) \o <<q[n + 1]>>
  BY <1>1, SubSeqRecursiveSecond
<1>4. Append(Prefix(q, n), q[n + 1]) = Prefix(q, n) \o <<q[n + 1]>>
  BY <1>2, AppendIsConcat
<1>5. QED
  BY <1>2, <1>3, <1>4 DEF Prefix

\* The steps that do not touch standard input.
LEMMA InputFrame ==
    ASSUME TypeOK, InputInv, UNCHANGED <<command, offset, consumed, sawEof>>,
           pipe'["in"] = pipe["in"],
           pc' \in {"threw", "killed"} \/ pc \notin {"threw", "killed"},
           pc' \in Feeding => /\ pc \in Feeding
                              /\ Holds("parent", "in", "w") => Holds("parent", "in", "w")',
           prog' = "reading" => ~sawEof
    PROVE  InputInv'
BY DEF InputInv, InputIntact, EofMeansAll, Holds

LEMMA InputStep == IInv /\ InputInv /\ StatusFaithful /\ [Next]_vars => InputInv'
<1> SUFFICES ASSUME IInv, InputInv, StatusFaithful, [Next]_vars PROVE InputInv'
  OBVIOUS
<1>0. TypeOK /\ Entries
  BY DEF IInv
<1>1. CASE CreatePipes \/ LocateProgram
  <2>1. /\ UNCHANGED <<command, offset, consumed, sawEof, pipe, prog>>
        /\ pc' \notin Feeding /\ pc \notin {"threw", "killed"}
    BY <1>1 DEF CreatePipes, LocateProgram, Throw, Feeding, dataVars, childVars
  <2>2. QED
    BY <1>0, <2>1, InputFrame DEF InputInv
<1>2. CASE OpenInput
  <2>1. /\ UNCHANGED <<command, offset, consumed, sawEof, pipe, prog>>
        /\ pc = "stdin" /\ command.input \in Seq(Byte) /\ offset = 0
    BY <1>0, <1>2, RunCommandAssumption
       DEF OpenInput, dataVars, childVars, Entries, Early, TypeOK, CommandType
  <2>2. CASE command.input # <<>> /\ pc' = "fork"
    <3>1. Holds("parent", "in", "w")'
      BY <1>0, <1>2, <2>2 DEF OpenInput, Throw, Holds, TypeOK, Processes
    <3>2. QED
      BY <2>1, <2>2, <3>1 DEF InputInv, InputIntact, EofMeansAll
  <2>3. CASE command.input = <<>> \/ pc' = "threw"
    <3>1. pc' = "threw" \/ Len(command.input) = 0
      BY <2>3
    <3>2. QED
      BY <1>2, <2>1, <3>1 DEF InputInv, InputIntact, EofMeansAll, Feeding
  <2>4. QED
    BY <1>2, <2>2, <2>3 DEF OpenInput, Throw
<1>3. CASE \/ Fork \/ CreateBuffers \/ Poll \/ PollFails \/ PassEntry \/ StartWrite
           \/ WriteNoReader \/ EndScan
           \/ \E s \in Outputs : ReadOutput(s) \/ ReadFails(s)
  <2>1. /\ UNCHANGED <<command, offset, consumed, sawEof>> /\ pc \in Feeding
        /\ prog' = prog \/ prog' = "setup"
    BY <1>3 DEF Fork, CreateBuffers, Poll, PollFails, PassEntry, StartWrite,
       WriteNoReader, EndScan, ReadOutput, ReadFails, Scanning, Throw, Feeding,
       dataVars, childVars
  <2>2. pipe'["in"] = pipe["in"]
    BY <1>0, <1>3 DEF Fork, CreateBuffers, Poll, PollFails, PassEntry, StartWrite,
       WriteNoReader, EndScan, ReadOutput, ReadFails, dataVars, TypeOK, Outputs, Streams
  <2>3. pc' \in Feeding /\ Holds("parent", "in", "w") => Holds("parent", "in", "w")'
    BY <1>0, <1>3 DEF Fork, CreateBuffers, Poll, PollFails, PassEntry, StartWrite,
       WriteNoReader, EndScan, ReadOutput, ReadFails, Throw, Feeding, Holds, TypeOK,
       Processes, ParentDrops
  <2>4. prog' = "reading" => ~sawEof
    BY <2>1 DEF InputInv
  <2>5. pc \notin {"threw", "killed"}
    BY <2>1 DEF Feeding
  <2>6. QED
    BY <1>0, <2>1, <2>2, <2>3, <2>4, <2>5, InputFrame
<1>4. CASE Return
  <2>1. /\ UNCHANGED <<command, offset, consumed, sawEof, pipe>> /\ pc = "wait"
        /\ pc' = "returned" /\ prog' = "reaped"
    BY <1>4 DEF Return, dataVars
  <2>2. QED
    BY <1>0, <2>1, InputFrame DEF InputInv, Feeding
<1>5. CASE WriteByte
  <2> DEFINE b == command.input[offset + 1]
             p == pipe["in"]
             q == Prefix(command.input, offset)
  <2>1. /\ pc = "write" /\ pc' \in {"write", "scan"}
        /\ command' = command /\ consumed' = consumed /\ sawEof' = sawEof
        /\ prog' = prog /\ offset' = offset + 1 /\ pipe'["in"] = Append(p, b)
    BY <1>0, <1>5 DEF WriteByte, NextByte, IsLast, childVars, TypeOK, Streams
  <2>2. /\ command.input \in Seq(Byte) /\ offset \in Nat /\ offset < Len(command.input)
        /\ Len(command.input) \in Nat /\ p \in Seq(Byte) /\ consumed \in Seq(Byte)
    BY <1>0, <2>1, RunCommandAssumption, LenProperties
       DEF TypeOK, CommandType, Entries, Listed, Streams
  <2>3. b \in Byte /\ q \in Seq(Byte) /\ Prefix(command.input, offset + 1) = Append(q, b)
    BY <2>2, NextPrefix, ElementOfSeq
  <2>4. consumed \o p = q
    BY DEF InputInv, InputIntact
  <2> HIDE DEF b, p, q
  <2>5. consumed \o Append(p, b) = Append(consumed \o p, b)
    BY ONLY <2>2, <2>3, AppendLast
  <2>6. InputIntact'
    BY <2>1, <2>3, <2>4, <2>5 DEF InputIntact
  <2>7. offset' < Len(command.input) => Holds("parent", "in", "w")'
    BY <1>5, <2>1, <2>2 DEF WriteByte, IsLast, Holds, InputInv, Feeding
  <2>8. QED
    BY <2>1, <2>2, <2>6, <2>7 DEF InputInv, EofMeansAll
<1>6. CASE FinishRead
  <2> DEFINE p == pipe["in"]
  <2>1. /\ p # <<>> /\ p \in Seq(Byte) /\ consumed \in Seq(Byte)
        /\ consumed' = Append(consumed, Head(p)) /\ pipe'["in"] = Tail(p)
        /\ UNCHANGED <<command, pc, held, offset, sawEof>>
        /\ prog = "reading" /\ prog' = "running"
    BY <1>0, <1>6 DEF FinishRead, TypeOK, Streams
  <2> HIDE DEF p
  <2>2. Append(consumed, Head(p)) \o Tail(p) = consumed \o p
    BY ONLY <2>1, TakeFirst
  <2>3. InputIntact'
    BY <2>1, <2>2 DEF InputInv, InputIntact, p
  <2>4. QED
    BY <2>1, <2>3 DEF InputInv, EofMeansAll, Holds
<1>7. CASE ReadEof
  <2>1. /\ pipe["in"] = <<>> /\ ~Open("in", "w") /\ prog = "reading"
        /\ prog' = "running"
        /\ UNCHANGED <<command, pc, held, offset, consumed, pipe>>
    BY <1>7 DEF ReadEof
  <2>2. ASSUME pc \notin {"threw", "killed"} PROVE consumed = command.input
    <3>1. pc \in Feeding
      BY <1>0, <2>1, <2>2 DEF TypeOK, Entries, Early, Feeding, StatusFaithful
    <3>2. /\ command.input \in Seq(Byte) /\ consumed \in Seq(Byte)
          /\ Len(command.input) \in Nat /\ offset \in Nat
      BY <1>0, RunCommandAssumption, LenProperties DEF TypeOK, CommandType
    <3>3. offset = Len(command.input)
      BY <2>1, <3>1, <3>2 DEF InputInv, Open, Processes
    <3>4. Prefix(command.input, offset) = command.input
      BY <3>2, <3>3, SubSeqFull DEF Prefix
    <3>5. consumed \o <<>> = consumed
      BY <3>2, ConcatEmptySeq
    <3>6. QED
      BY <2>1, <3>4, <3>5 DEF InputInv, InputIntact
  <2>3. QED
    BY <2>1, <2>2 DEF InputInv, InputIntact, EofMeansAll, Holds
<1>8. CASE BeginRead
  BY <1>0, <1>8, InputFrame DEF BeginRead, dataVars, Holds
<1>9. ASSUME UNCHANGED <<command, pc, offset, consumed, sawEof>>,
             pipe'["in"] = pipe["in"], held'["parent"] = held["parent"],
             prog' # "reading" \/ prog' = prog
      PROVE  InputInv'
  BY <1>9 DEF InputInv, InputIntact, EofMeansAll, Holds
<1>10. CASE \/ ChildExec \/ ChildCannotExec \/ ChildGivesUp
            \/ \E s \in Outputs : BeginWrite(s) \/ WriteBroken(s)
            \/ \E s \in Outputs, b \in Byte : FinishWrite(s, b) \/ HeirWrite(s, b)
            \/ \E e \in Ends : CloseEnd(e) \/ HeirCloses(e)
            \/ \E st \in Statuses, kept \in SUBSET Ends : Exit(st, kept)
            \/ \E st \in Signals : Killed(st)
            \/ Terminated \/ UNCHANGED vars
  <2>1. /\ UNCHANGED <<command, pc, offset, consumed, sawEof>>
        /\ prog' # "reading" \/ prog' = prog
    BY <1>10 DEF ChildExec, ChildCannotExec, ChildGivesUp, BeginWrite, WriteBroken,
       FinishWrite, HeirWrite, CloseEnd, HeirCloses, Exit, Killed, Terminated, vars,
       End, dataVars, childVars, Outputs
  <2>2. pipe'["in"] = pipe["in"]
    BY <1>0, <1>10 DEF ChildExec, ChildCannotExec, ChildGivesUp, BeginWrite,
       WriteBroken, FinishWrite, HeirWrite, CloseEnd, HeirCloses, Exit, Killed,
       Terminated, vars, Emit, dataVars, TypeOK, Outputs, Streams
  <2>3. held'["parent"] = held["parent"]
    BY <1>0, <1>10 DEF ChildExec, ChildCannotExec, ChildGivesUp, BeginWrite,
       WriteBroken, FinishWrite, HeirWrite, CloseEnd, HeirCloses, Exit, Killed,
       Terminated, vars, End, TypeOK, Processes
  <2>4. QED
    BY <1>9, <2>1, <2>2, <2>3
<1>11. QED
  BY <1>1, <1>2, <1>3, <1>4, <1>5, <1>6, <1>7, <1>8, <1>10
     DEF Next, Parent, Advance, Program, Heir

LEMMA StatusStep == IInv /\ StatusFaithful /\ [Next]_vars => StatusFaithful'
<1> SUFFICES ASSUME IInv, StatusFaithful, [Next]_vars, pc' = "returned" PROVE StatusFaithful'
  BY DEF StatusFaithful
<1>1. CASE Return
  BY <1>1 DEF Return, StatusFaithful
<1>2. CASE \/ Advance /\ ~Return
           \/ PollFails \/ \E s \in Outputs : ReadFails(s)
  <2>1. pc' # "returned"
    BY <1>2 DEF Advance, CreatePipes, LocateProgram, OpenInput, Fork, CreateBuffers,
       Poll, PollFails, PassEntry, StartWrite, WriteByte, WriteNoReader, EndScan,
       ReadOutput, ReadFails, Scanning, Throw, loopVars
  <2>2. QED
    BY <2>1
<1>3. CASE Program \/ \E st \in Signals : Killed(st)
  BY <1>3 DEF Program, ChildExec, ChildCannotExec, ChildGivesUp, BeginRead, FinishRead,
     ReadEof, BeginWrite, FinishWrite, WriteBroken, CloseEnd, Exit, Killed, Alive,
     Outputs, StatusFaithful
<1>4. CASE Heir \/ Terminated \/ UNCHANGED vars
  BY <1>4 DEF Heir, HeirWrite, HeirCloses, Terminated, vars, childVars, StatusFaithful
<1>5. QED
  BY <1>1, <1>2, <1>3, <1>4 DEF Next, Parent

LEMMA InputInvariance == Spec => [](InputInv /\ StatusFaithful)
<1>1. Init => InputInv /\ StatusFaithful
  <2>1. SUFFICES ASSUME Init PROVE InputInv /\ StatusFaithful
    OBVIOUS
  <2>2. command.input \in Seq(Byte)
    BY <2>1, RunCommandAssumption DEF Init, CommandType
  <2>3. Len(command.input) \in Nat /\ Prefix(command.input, 0) = <<>>
    BY <2>2, LenProperties, SubSeqEmpty DEF Prefix
  <2>4. <<>> \o <<>> = <<>>
    BY EmptySeq, ConcatEmptySeq
  <2>5. InputIntact
    BY <2>1, <2>3, <2>4 DEF Init, InputIntact, Streams
  <2>6. QED
    BY <2>1, <2>3, <2>5 DEF Init, InputInv, EofMeansAll, Feeding, StatusFaithful
<1>2. IInv /\ InputInv /\ StatusFaithful /\ [Next]_vars => (InputInv /\ StatusFaithful)'
  BY InputStep, StatusStep
<1>3. QED
  BY <1>1, <1>2, Invariance, PTL DEF Spec

\* The program gets the input in order and each byte once (Buffer::write,
\* OS-Unix-run.cc:127-142).
THEOREM InputIsIntact == Spec => []InputIntact
<1>1. InputInv => InputIntact
  BY DEF InputInv
<1>2. QED
  BY InputInvariance, <1>1, PTL

\* End of file on standard input comes after all of the input, unless nihtest gave up
\* (OS-Unix-run.cc:264-266, 329-331, 386-391).
THEOREM EofAfterAll == Spec => []EofMeansAll
<1>1. InputInv => EofMeansAll
  BY DEF InputInv
<1>2. QED
  BY InputInvariance, <1>1, PTL

\* The status that is returned is that of the program, unless nihtest was started
\* with SIGCHLD ignored (OS-Unix-run.cc:400-444).
THEOREM StatusIsFaithful == Spec => []StatusFaithful
  BY InputInvariance, PTL

-----------------------------------------------------------------------------
(* The capture limit *)

\* Only the read that fills a buffer says so, and then nothing more is read.
LimitInv ==
    /\ error # "none" => pc = "threw"
    /\ error = "buffer full" => \E s \in Outputs : Len(buf[s]) = BufferSize
    /\ pc # "threw" => \A s \in Outputs : Len(buf[s]) # BufferSize

LEMMA LimitFrame ==
    ASSUME LimitInv, UNCHANGED buf,
           \/ UNCHANGED <<pc, error>>
           \/ pc' # "threw" /\ pc # "threw" /\ UNCHANGED error
           \/ pc' = "threw" /\ error' # "buffer full"
    PROVE  LimitInv'
BY DEF LimitInv

LEMMA LimitStep == IInv /\ LimitInv /\ [Next]_vars => LimitInv'
<1> SUFFICES ASSUME IInv, LimitInv, [Next]_vars PROVE LimitInv'
  OBVIOUS
<1>0. TypeOK /\ BufferRoom
  BY DEF IInv
<1>1. ASSUME NEW s \in Outputs, ReadOutput(s) PROVE LimitInv'
  <2>1. /\ pc' = "threw" <=> Len(buf'[s]) = BufferSize
        /\ \A t \in Outputs \ {s} : buf'[t] = buf[t]
    BY <1>0, <1>1, ReadFacts
  <2>2. pc = "scan" /\ (pc' # "threw" => UNCHANGED error)
    BY <1>1 DEF ReadOutput, Scanning, Throw
  <2>3. QED
    BY <2>1, <2>2 DEF LimitInv
<1>2. CASE CreatePipes \/ LocateProgram \/ OpenInput \/ Fork \/ CreateBuffers
  BY <1>2, LimitFrame DEF CreatePipes, LocateProgram, OpenInput, Fork, CreateBuffers, Throw,
     dataVars
<1>3. CASE \/ Poll \/ PollFails \/ PassEntry \/ StartWrite \/ WriteNoReader \/ EndScan \/ Return
           \/ \E s \in Outputs : ReadFails(s)
  <2>1. CASE Poll \/ PassEntry \/ StartWrite \/ EndScan \/ Return
    <3>1. UNCHANGED <<buf, error>> /\ pc # "threw" /\ pc' # "threw"
      BY <2>1 DEF Poll, PassEntry, StartWrite, Scanning, EndScan, Return, dataVars
    <3>2. QED
      BY <3>1, LimitFrame
  <2>2. CASE PollFails \/ \E s \in Outputs : ReadFails(s)
    BY <2>2, LimitFrame DEF PollFails, ReadFails, Throw, dataVars
  <2>3. CASE WriteNoReader
    BY <2>3, LimitFrame DEF WriteNoReader, Throw, dataVars
  <2>4. QED
    BY <1>3, <2>1, <2>2, <2>3
<1>4. CASE WriteByte
  BY <1>4, LimitFrame DEF WriteByte
<1>5. CASE Others
  <2>1. UNCHANGED <<pc, error, buf>>
    BY <1>5 DEF Others, Program, ChildExec, ChildCannotExec, ChildGivesUp, BeginRead, FinishRead,
       ReadEof, BeginWrite, FinishWrite, WriteBroken, CloseEnd, Exit, Killed, Heir, HeirWrite,
       HeirCloses, Terminated, vars, dataVars
  <2>2. QED
    BY <2>1, LimitFrame
<1>6. QED
  BY <1>1, <1>2, <1>3, <1>4, <1>5 DEF Next, Parent, Advance, Others

\* "buffer full" is said of a stream of BUFFER_SIZE bytes or more, and of each of them:
\* what is returned is shorter (OS-Unix-run.cc:120-123).
THEOREM LimitIsRight == Spec => []BufferLimit
<1>1. Init => LimitInv
  BY RunCommandAssumption, EmptySeq DEF Init, LimitInv
<1>2. Spec => []LimitInv
  BY <1>1, LimitStep, Invariance, PTL DEF Spec
<1>3. ASSUME IInv, LimitInv, OutputComplete
      PROVE  BufferLimit
  <2>1. ASSUME NEW s \in Outputs
        PROVE  /\ Len(buf[s]) \in Nat /\ Len(written[s]) \in Nat
               /\ Len(buf[s]) <= Len(written[s])
    <3> DEFINE b == buf[s]
               p == pipe[s]
    <3>1. b \in Seq(Byte) /\ p \in Seq(Byte) /\ written[s] = b \o p
      BY <1>3, <2>1 DEF IInv, TypeOK, StreamIntact, Streams
    <3> HIDE DEF b, p
    <3>2. Len(b \o p) = Len(b) + Len(p) /\ Len(b) \in Nat /\ Len(p) \in Nat
      BY ONLY <3>1, ConcatProperties, LenProperties, SMT
    <3>3. QED
      BY <3>1, <3>2 DEF b
  <2>2. BufferSize \in Nat
    BY RunCommandAssumption
  <2>3. error = "buffer full" => \E s \in Outputs : Len(written[s]) >= BufferSize
    BY <1>3, <2>1, <2>2 DEF LimitInv
  <2>4. ASSUME pc = "returned", NEW s \in Outputs
        PROVE  Len(written[s]) < BufferSize
    <3>1. Len(buf[s]) # BufferSize /\ Len(buf[s]) <= BufferSize /\ buf[s] = written[s]
      BY <1>3, <2>4 DEF LimitInv, IInv, BufferRoom, OutputComplete
    <3>2. QED
      BY <2>1, <2>2, <3>1
  <2>5. QED
    BY <2>3, <2>4 DEF BufferLimit
<1>4. QED
  BY <1>2, <1>3, Invariance, OutputIsComplete, PTL

-----------------------------------------------------------------------------
(* RunCommand implements CommandContract, for every value of its constants: each step of  *)
(* nihtest, the program or its heirs is a step of the contract or none that its reader     *)
(* could notice.                                                                           *)

\* What the contract needs to know beyond IInv: no answer is prepared before it is given,
\* and until there is a child nobody but nihtest has a pipe, which has all it will hand on.
MapInv ==
    /\ pc # "returned" => result = "none"
    /\ prog = "none" => held["child"] = {} /\ held["heir"] = {}
    /\ pc \in {"locate", "stdin", "fork"} => \A s \in Outputs : Holds("parent", s, "w")

LEMMA MapInit == Init => MapInv
BY DEF Init, MapInv, Processes

LEMMA MapStep == IInv /\ MapInv /\ [Next]_vars => MapInv'
<1> SUFFICES ASSUME IInv, MapInv, [Next]_vars PROVE MapInv'
  OBVIOUS
<1>0. TypeOK /\ Entries
  BY DEF IInv
<1>1. CASE CreatePipes
  <2>1. pc = "pipes" /\ result' = result /\ prog' = prog /\ pc' \in {"threw", "locate"}
    BY <1>1 DEF CreatePipes, Throw, childVars
  <2>2. /\ held'["child"] = held["child"] /\ held'["heir"] = held["heir"]
        /\ pc' = "locate" => held'["parent"] = Outputs \X {"r", "w"}
    BY <1>0, <1>1 DEF CreatePipes, Throw, TypeOK, Processes
  <2>3. QED
    BY <2>1, <2>2 DEF MapInv, Holds
<1>2. CASE LocateProgram \/ OpenInput
  <2>1. /\ pc \in {"locate", "stdin"} /\ result' = result /\ prog' = prog
        /\ pc' \in {"threw", "stdin", "fork"}
    BY <1>2 DEF LocateProgram, OpenInput, Throw, childVars
  <2>2. /\ held'["child"] = held["child"] /\ held'["heir"] = held["heir"]
        /\ pc' # "threw" => held["parent"] \subseteq held'["parent"]
    BY <1>0, <1>2 DEF LocateProgram, OpenInput, Throw, TypeOK, Processes
  <2>3. QED
    BY <2>1, <2>2 DEF MapInv, Holds
<1>3. CASE Fork
  BY <1>0, <1>3 DEF Fork, Throw, MapInv, TypeOK, Processes
<1>4. CASE \/ CreateBuffers \/ Poll \/ PollFails \/ PassEntry \/ StartWrite
           \/ WriteByte \/ WriteNoReader \/ EndScan
           \/ \E s \in Outputs : ReadOutput(s) \/ ReadFails(s)
  <2>1. /\ UNCHANGED <<prog, result>> /\ held'["child"] = held["child"] /\ held'["heir"] = held["heir"]
        /\ pc # "returned" /\ pc' \notin {"locate", "stdin", "fork"}
    BY <1>0, <1>4 DEF CreateBuffers, Poll, PollFails, PassEntry, StartWrite, WriteByte,
       WriteNoReader, EndScan, ReadOutput, ReadFails, Scanning, Throw, TypeOK,
       Processes, childVars
  <2>2. QED
    BY <2>1 DEF MapInv
<1>5. CASE Return
  BY <1>5 DEF Return, MapInv
<1>6. CASE Others
  <2>1. UNCHANGED <<pc, result>> /\ held'["parent"] = held["parent"]
    BY <1>0, <1>6 DEF Others, Program, ChildExec, ChildCannotExec, ChildGivesUp, BeginRead,
       FinishRead, ReadEof, BeginWrite, FinishWrite, WriteBroken, CloseEnd, Exit, Killed, End,
       Heir, HeirWrite, HeirCloses, Terminated, vars, TypeOK, Processes
  <2>2. prog' = "none" => prog = "none" /\ held' = [held EXCEPT !["heir"] = held'["heir"]]
                            /\ held'["heir"] \subseteq held["heir"]
    BY <1>0, <1>6 DEF Others, Program, ChildExec, ChildCannotExec, ChildGivesUp, BeginRead,
       FinishRead, ReadEof, BeginWrite, FinishWrite, WriteBroken, CloseEnd, Exit, Killed, End,
       Heir, HeirWrite, HeirCloses, Terminated, vars, childVars, TypeOK, Processes, Outputs
  <2>3. QED
    BY <1>0, <2>1, <2>2 DEF MapInv, Holds, TypeOK, Processes
<1>7. QED
  BY <1>1, <1>2, <1>3, <1>4, <1>5, <1>6 DEF Next, Parent, Advance, Others

-----------------------------------------------------------------------------
(* How the steps look *)

LEMMA InitMaps == Init => Contract!Init
BY DEF Init, Contract!Init, Contract!Pending, Contract!Outcome, Contract!Nothing,
   Contract!Outputs, Outputs, Processes, Alive, Holds, Phase, StillOpen, Answer, AnswerKind

\* Nothing of this to be seen.
LEMMA Unseen ==
    ASSUME Phase' = Phase, status' = status, StillOpen' = StillOpen, written' = written,
           Answer' = Answer
    PROVE  UNCHANGED Contract!vars
BY DEF Contract!vars

\* Until the answer is given there is none.
LEMMA NoAnswer ==
    ASSUME MapInv, ~Over
    PROVE  Answer = Contract!Pending
BY DEF MapInv, Over, Answer, AnswerKind, Contract!Pending, Contract!Outcome, Contract!Nothing,
   Contract!Outputs, Outputs

\* An exception, or SIGPIPE, is a failure.
LEMMA GivesUp ==
    ASSUME MapInv, ~Over, pc' \in {"threw", "killed"}, UNCHANGED <<result, status, written>>,
           Phase' = Phase, StillOpen' = StillOpen
    PROVE  Contract!Fail
<1>1. Answer' = Contract!Outcome("failed", "none", Contract!Nothing)
  BY DEF MapInv, Over, Answer, AnswerKind, Contract!Outcome, Contract!Nothing, Contract!Outputs,
     Outputs
<1>2. QED
  BY <1>1, NoAnswer DEF Contract!Fail

\* What happens to the parent's descriptors only is not seen.
LEMMA SameOpen ==
    ASSUME held'["child"] = held["child"], held'["heir"] = held["heir"]
    PROVE  StillOpen' = StillOpen
BY DEF StillOpen, Holds

-----------------------------------------------------------------------------
(* nihtest's steps *)

LEMMA ParentMaps ==
    ASSUME IInv, MapInv, OutputComplete', Parent,
           Return => result' = status
    PROVE  Contract!Next \/ UNCHANGED Contract!vars
<1>0. TypeOK
  BY DEF IInv
<1>1. ASSUME ~Over, pc' # "returned", UNCHANGED <<result, status, written, prog>>,
             held'["child"] = held["child"], held'["heir"] = held["heir"]
      PROVE  Contract!Next \/ UNCHANGED Contract!vars
  <2>1. Phase' = Phase /\ StillOpen' = StillOpen
    BY <1>1, SameOpen DEF Phase
  <2>2. CASE pc' \in {"threw", "killed"}
    BY <1>1, <2>1, <2>2, GivesUp DEF Contract!Next
  <2>3. CASE pc' \notin {"threw", "killed"}
    <3>1. Answer' = Answer
      BY <1>1, <2>3 DEF Over, Answer, AnswerKind
    <3>2. QED
      BY <1>1, <2>1, <3>1, Unseen
  <2>4. QED
    BY <2>2, <2>3
<1>2. CASE \/ CreatePipes \/ LocateProgram \/ OpenInput
  <2>1. /\ ~Over /\ pc' # "returned" /\ UNCHANGED <<result, status, written, prog>>
        /\ held'["child"] = held["child"] /\ held'["heir"] = held["heir"]
    BY <1>0, <1>2 DEF CreatePipes, LocateProgram, OpenInput, Throw, Over, TypeOK, Processes,
       childVars, dataVars
  <2>2. QED
    BY <1>1, <2>1
<1>3. CASE \/ CreateBuffers \/ Poll \/ PollFails \/ PassEntry \/ StartWrite
           \/ WriteByte \/ WriteNoReader \/ EndScan
           \/ \E s \in Outputs : ReadOutput(s) \/ ReadFails(s)
  <2>1. /\ ~Over /\ pc' # "returned" /\ UNCHANGED <<result, status, written, prog>>
        /\ held'["child"] = held["child"] /\ held'["heir"] = held["heir"]
    BY <1>0, <1>3 DEF CreateBuffers, Poll, PollFails, PassEntry, StartWrite, WriteByte,
       WriteNoReader, EndScan, ReadOutput, ReadFails, Scanning, Throw, Over, TypeOK, Processes,
       childVars, dataVars
  <2>2. QED
    BY <1>1, <2>1
<1>4. CASE Fork
  <2>1. CASE Throw("can't fork") /\ UNCHANGED prog
    <3>1. /\ ~Over /\ pc' # "returned" /\ UNCHANGED <<result, status, written, prog>>
          /\ held'["child"] = held["child"] /\ held'["heir"] = held["heir"]
      BY <1>0, <1>4, <2>1 DEF Fork, Throw, Over, TypeOK, Processes, dataVars
    <3>2. QED
      BY <1>1, <3>1
  <2>2. CASE prog' = "setup" /\ pc' = "buffers" /\ held'["child"] = held["parent"]
    <3>1. pc = "fork" /\ prog = "none" /\ UNCHANGED <<result, status, written>>
      BY <1>4 DEF Fork, dataVars, IInv, Entries, Early
    <3>2. Phase = "idle" /\ Phase' = "running"
      BY <2>2, <3>1 DEF Phase, Alive
    <3>3. StillOpen' = Contract!Outputs
      BY <2>2, <3>1 DEF MapInv, StillOpen, Holds, Contract!Outputs, Outputs
    <3>4. Answer = Contract!Pending /\ Answer' = Answer
      <4>1. Answer = Contract!Pending
        BY <3>1, NoAnswer DEF Over
      <4>2. Answer' = Answer
        BY <2>2, <3>1 DEF Answer, AnswerKind
      <4>3. QED
        BY <4>1, <4>2
    <3>5. Contract!Start
      BY <3>1, <3>2, <3>3, <3>4 DEF Contract!Start
    <3>6. QED
      BY <3>5 DEF Contract!Next
  <2>3. QED
    BY <1>0, <1>4, <2>1, <2>2 DEF Fork, TypeOK, Processes
<1>5. CASE Return
  <2>1. /\ pc = "wait" /\ pc' = "returned" /\ prog = "ended" /\ prog' = "reaped"
        /\ result' = status /\ UNCHANGED <<status, written, buf>>
        /\ held' = [held EXCEPT !["parent"] = {}]
    BY <1>5 DEF Return, dataVars
  <2>2. Phase = "ended" /\ Phase' = "ended"
    BY <2>1 DEF Phase, Alive, Outputs
  <2>3. StillOpen = {}
    <3>1. ASSUME NEW s \in Outputs
          PROVE  ~Open(s, "w")
      BY <2>1, <3>1 DEF IInv, Eof, Entries, Listed, Drained
    <3>2. QED
      BY <3>1 DEF StillOpen, Open, Processes
  <2>4. StillOpen' = StillOpen
    BY <1>0, <2>1, SameOpen DEF TypeOK, Processes
  <2>5. Answer = Contract!Pending
    BY <2>1, NoAnswer DEF Over
  <2>6. Answer' = Contract!Outcome("returned", status, written)
    BY <2>1 DEF OutputComplete, Answer, AnswerKind, Contract!Outcome
  <2>7. Contract!Return
    BY <2>1, <2>2, <2>3, <2>4, <2>5, <2>6 DEF Contract!Return
  <2>8. QED
    BY <2>7 DEF Contract!Next
<1>6. QED
  BY <1>2, <1>3, <1>4, <1>5 DEF Parent, Advance

-----------------------------------------------------------------------------
(* The steps of the program and its heirs *)

\* The child ends: whoever is left has no stream that was not open before.
LEMMA EndMaps ==
    ASSUME TypeOK, prog \in Alive, NEW st \in Statuses, NEW kept \in SUBSET held["child"],
           End(st, kept), UNCHANGED written, Answer' = Answer
    PROVE  Contract!End
<1>1. Phase = "running" /\ Phase' = "ended" /\ status' = st
  BY DEF Phase, Alive, Outputs, End
<1>2. held'["child"] = {} /\ held'["heir"] = kept
  BY DEF End, TypeOK, Processes
<1>3. StillOpen' \in SUBSET StillOpen
  BY <1>2 DEF StillOpen, Holds
<1>4. QED
  BY <1>1, <1>3 DEF Contract!End

\* A byte is written by somebody who has the stream open.
LEMMA EmitMaps ==
    ASSUME NEW s \in Outputs, NEW b \in Byte, Emit(s, b), s \in StillOpen,
           UNCHANGED <<held, status>>, Phase' = Phase, Answer' = Answer
    PROVE  Contract!Emit
<1>1. written' = [written EXCEPT ![s] = Append(@, b)]
  BY DEF Emit
<1>2. StillOpen' = StillOpen
  BY SameOpen
<1>3. QED
  BY <1>1, <1>2 DEF Contract!Emit

\* Descriptors are closed, of streams or not.
LEMMA CloseMaps ==
    ASSUME held'["child"] \subseteq held["child"], held'["heir"] \subseteq held["heir"],
           UNCHANGED <<status, written>>, Phase' = Phase, Answer' = Answer
    PROVE  Contract!Close
<1>1. StillOpen' \in SUBSET StillOpen
  BY DEF StillOpen, Holds
<1>2. QED
  BY <1>1 DEF Contract!Close

LEMMA OthersMaps ==
    ASSUME IInv, Others
    PROVE  Contract!Next \/ UNCHANGED Contract!vars
<1>0. TypeOK /\ Writers
  BY DEF IInv
<1>1. Answer' = Answer
  <2>1. UNCHANGED <<pc, result, buf>>
    BY DEF Others, Program, ChildExec, ChildCannotExec, ChildGivesUp, BeginRead, FinishRead,
       ReadEof, BeginWrite, FinishWrite, WriteBroken, CloseEnd, Exit, Killed, Heir, HeirWrite,
       HeirCloses, Terminated, vars, dataVars
  <2>2. QED
    BY <2>1 DEF Answer, AnswerKind
<1>2. CASE \/ BeginRead \/ FinishRead \/ ReadEof \/ Terminated \/ UNCHANGED vars
           \/ \E s \in Outputs : BeginWrite(s)
  <2>1. /\ UNCHANGED <<held, status, written>>
        /\ prog' = prog \/ (prog \in Alive /\ prog' \in Alive)
    BY <1>2 DEF BeginRead, FinishRead, ReadEof, BeginWrite, Terminated, vars, childVars, dataVars,
       Alive
  <2>2. Phase' = Phase
    BY <2>1 DEF Phase, Alive, Outputs
  <2>3. QED
    BY <1>1, <2>1, <2>2, SameOpen, Unseen
<1>3. CASE ChildExec
  <2>1. prog = "setup" /\ prog' = "running" /\ UNCHANGED <<status, written>>
    BY <1>3 DEF ChildExec, dataVars
  <2>2. held'["child"] \subseteq held["child"] /\ held'["heir"] = held["heir"]
    BY <1>0, <1>3 DEF ChildExec, TypeOK, Processes
  <2>3. Phase' = Phase
    BY <2>1 DEF Phase, Alive
  <2>4. QED
    BY <1>1, <2>1, <2>2, <2>3, CloseMaps DEF Contract!Next
<1>4. CASE ChildCannotExec
  <2>1. prog = "setup" /\ Phase = "running"
    BY <1>4 DEF ChildCannotExec, Phase, Alive
  <2>2. ASSUME NEW b \in Byte, Emit("err", b), prog' = "failing", UNCHANGED <<held, status>>
        PROVE  Contract!Next
    <3>1. Phase' = Phase
      BY <2>1, <2>2 DEF Phase, Alive
    <3>2. "err" \in StillOpen
      BY <1>0, <2>1 DEF Writers, StillOpen, Outputs
    <3>3. QED
      BY <1>1, <2>2, <3>1, <3>2, EmitMaps DEF Contract!Next, Outputs
  <2>3. CASE prog' = "failing" /\ UNCHANGED <<held, status, written>>
    <3>1. Phase' = Phase
      BY <2>1, <2>3 DEF Phase, Alive
    <3>2. QED
      BY <1>1, <2>3, <3>1, SameOpen, Unseen
  <2>4. CASE End("SIGPIPE", {}) /\ UNCHANGED written
    BY <1>0, <1>1, <2>1, <2>4, EndMaps, RunCommandAssumption DEF Alive, Contract!Next
  <2>5. QED
    BY <1>4, <2>2, <2>3, <2>4 DEF ChildCannotExec
<1>5. CASE ChildGivesUp
  BY <1>0, <1>1, <1>5, EndMaps, RunCommandAssumption DEF ChildGivesUp, Alive, Contract!Next, dataVars
<1>6. ASSUME NEW s \in Outputs, WriteBroken(s)
      PROVE  Contract!Next \/ UNCHANGED Contract!vars
  <2>1. prog \in Alive /\ UNCHANGED written
    BY <1>6 DEF WriteBroken, Alive, dataVars
  <2>2. CASE End("SIGPIPE", {})
    BY <1>0, <1>1, <2>1, <2>2, EndMaps, RunCommandAssumption DEF Contract!Next
  <2>3. CASE prog' = "running" /\ UNCHANGED <<held, status>>
    <3>1. Phase' = Phase
      BY <2>1, <2>3 DEF Phase, Alive, Outputs
    <3>2. QED
      BY <1>1, <2>1, <2>3, <3>1, SameOpen, Unseen
  <2>4. QED
    BY <1>6, <2>2, <2>3 DEF WriteBroken
<1>7. ASSUME NEW s \in Outputs, NEW b \in Byte, FinishWrite(s, b)
      PROVE  Contract!Next
  <2>1. /\ prog = s /\ prog' = "running" /\ UNCHANGED <<held, status>> /\ Emit(s, b)
    BY <1>7 DEF FinishWrite
  <2>2. Phase' = Phase
    BY <2>1 DEF Phase, Alive, Outputs
  <2>3. s \in StillOpen
    BY <1>0, <2>1 DEF Writers, StillOpen
  <2>4. QED
    BY <1>1, <2>1, <2>2, <2>3, EmitMaps DEF Contract!Next
<1>8. ASSUME NEW s \in Outputs, NEW b \in Byte, HeirWrite(s, b)
      PROVE  Contract!Next
  <2>1. UNCHANGED <<held, prog, status>> /\ Emit(s, b) /\ s \in StillOpen
    BY <1>8 DEF HeirWrite, childVars, StillOpen
  <2>2. Phase' = Phase
    BY <2>1 DEF Phase
  <2>3. QED
    BY <1>1, <2>1, <2>2, EmitMaps DEF Contract!Next
<1>9. CASE \E e \in Ends : CloseEnd(e) \/ HeirCloses(e)
  <2>1. UNCHANGED <<prog, status, written>>
    BY <1>9 DEF CloseEnd, HeirCloses, childVars, dataVars
  <2>2. held'["child"] \subseteq held["child"] /\ held'["heir"] \subseteq held["heir"]
    BY <1>0, <1>9 DEF CloseEnd, HeirCloses, TypeOK, Processes
  <2>3. Phase' = Phase
    BY <2>1 DEF Phase
  <2>4. QED
    BY <1>1, <2>1, <2>2, <2>3, CloseMaps DEF Contract!Next
<1>10. ASSUME NEW st \in Statuses, NEW kept \in SUBSET Ends, Exit(st, kept)
       PROVE  Contract!Next
  BY <1>0, <1>1, <1>10, EndMaps DEF Exit, Alive, Contract!Next, dataVars
<1>11. ASSUME NEW st \in Signals, Killed(st)
       PROVE  Contract!Next
  <2>1. st \in Statuses
    BY RunCommandAssumption
  <2>2. QED
    BY <1>0, <1>1, <1>11, <2>1, EndMaps DEF Killed, Contract!Next, dataVars
<1>12. QED
  BY <1>2, <1>3, <1>4, <1>5, <1>6, <1>7, <1>8, <1>9, <1>10, <1>11 DEF Others, Program, Heir

-----------------------------------------------------------------------------
(* The theorem *)

\* run_command does what its caller is promised (OS.h:125), whatever its failures, the
\* program and the kernel: one answer, and only when the program has ended and nobody can
\* write any more, with all that was written and how it ended. The status is known only
\* if nihtest was not started with SIGCHLD ignored.
THEOREM ContractIsKept ==
    ASSUME \A c \in Commands : "SIGCHLD" \notin c.ignored
    PROVE  Spec => ImplementsContract
<1>1. ASSUME IInv, IInv', MapInv, OutputComplete', [Next]_vars
      PROVE  [Contract!Next]_Contract!vars
  <2>1. Return => result' = status
    BY <1>1 DEF Return, IInv, TypeOK
  <2>2. QED
    BY <1>1, <2>1, ParentMaps, OthersMaps DEF Next, Others
<1>2. Spec => []MapInv
  BY MapInit, MapStep, Invariance, PTL DEF Spec
<1>3. QED
  BY <1>1, <1>2, InitMaps, Invariance, OutputIsComplete, PTL DEF Spec, ImplementsContract, Contract!Spec

=============================================================================
