------------------------- MODULE FileTracer_proofs -------------------------
(***************************************************************************)
(* What FileTracer guarantees for any number of threads, sizes of lines    *)
(* and limits, events and constructed objects.                             *)
(***************************************************************************)
EXTENDS FileTracer, SequenceTheorems, TLAPS

(***************************************************************************)
(* The inductive invariant.  As long as no write failed, bytes_written is  *)
(* the size of the file and the buffer, except between fwrite and the end  *)
(* of record: then the line of the thread that has the mutex is missing.   *)
(***************************************************************************)
Recording ==
    \A t \in Threads : pc[t] # "idle" => open /\ line[t].size \in Sizes

Stored == Len(disk) + Len(buffer)

Counted ==
    open /\ ~failed /\ (\A t \in Threads : pc[t] # "written")
        => bytes_written = Stored

Pending ==
    \A t \in Threads : open /\ ~failed /\ pc[t] = "written"
        => bytes_written + line[t].size = Stored

IInv ==
    /\ TypeOK
    /\ Recording
    /\ ~open => buffer = <<>>
    /\ Counted
    /\ Pending
    /\ WithinLimit

-----------------------------------------------------------------------------
(***************************************************************************)
(* Lines and streams.                                                      *)
(***************************************************************************)
Lines == [id : 0..MaxEvents, size : Sizes \cup {1}]

\* The line of an event is a sequence of as many bytes as its size says.
LEMMA LineIsBytes ==
    ASSUME NEW e \in Lines
    PROVE  Line(e) \in Seq(Byte) /\ Len(Line(e)) = e.size
<1>1. e.size \in Nat /\ e.id \in 0..MaxEvents
  <2>1. e.id \in 0..MaxEvents /\ e.size \in Sizes \cup {1}
    BY DEF Lines
  <2>2. \A n \in Sizes \cup {1} : n \in Nat
    BY SizesAssumption
  <2> QED BY <2>1, <2>2
<1>2. \A k \in 1..e.size :
         [event |-> e.id, at |-> k, last |-> k = e.size] \in Byte
  BY <1>1 DEF Byte
<1>3. Line(e) \in [1..e.size -> Byte]
  BY <1>2, Zenon DEF Line
<1> QED BY <1>1, <1>3

\* Cutting a sequence anywhere gives two whose lengths add up.
LEMMA Cut ==
    ASSUME NEW S, NEW s \in Seq(S), NEW n \in 0..Len(s)
    PROVE  /\ Prefix(s, n) \in Seq(S) /\ Len(Prefix(s, n)) = n
           /\ Suffix(s, n) \in Seq(S) /\ Len(Suffix(s, n)) = Len(s) - n
<1>1. Len(s) \in Nat /\ \A i \in 1..Len(s) : s[i] \in S
  BY LenProperties, ElementOfSeq
<1>2. Prefix(s, n) \in Seq(S) /\ Len(Prefix(s, n)) = n
  <2>1. \A i \in 1..n : s[i] \in S
    BY <1>1
  <2> QED BY <1>1, <2>1, SubSeqProperties DEF Prefix
<1>3. Suffix(s, n) \in Seq(S) /\ Len(Suffix(s, n)) = Len(s) - n
  <2>1. \A i \in (n + 1)..Len(s) : s[i] \in S
    BY <1>1
  <2>2. n + 1 \in Int /\ Len(s) \in Int
    BY <1>1
  <2>3. /\ SubSeq(s, n + 1, Len(s)) \in Seq(S)
        /\ Len(SubSeq(s, n + 1, Len(s)))
             = IF n + 1 <= Len(s) THEN Len(s) - (n + 1) + 1 ELSE 0
    BY <2>1, <2>2, SubSeqProperties
  <2> QED BY <1>1, <2>3 DEF Suffix
<1> QED BY <1>2, <1>3

\* A stream neither loses nor invents bytes.
LEMMA HoldsKeeps ==
    ASSUME disk \in Seq(Byte), NEW bytes \in Seq(Byte), Holds(bytes)
    PROVE  /\ disk' \in Seq(Byte) /\ buffer' \in Seq(Byte)
           /\ Len(disk') + Len(buffer') = Len(disk) + Len(bytes)
<1>1. PICK n \in 0..Len(bytes) :
         disk' = disk \o Prefix(bytes, n) /\ buffer' = Suffix(bytes, n)
  BY DEF Holds
<1>2. /\ Prefix(bytes, n) \in Seq(Byte) /\ Len(Prefix(bytes, n)) = n
      /\ Suffix(bytes, n) \in Seq(Byte)
      /\ Len(Suffix(bytes, n)) = Len(bytes) - n
  BY Cut
<1>3. /\ disk \o Prefix(bytes, n) \in Seq(Byte)
      /\ Len(disk \o Prefix(bytes, n)) = Len(disk) + n
  BY <1>2, ConcatProperties
<1>4. Len(disk) \in Nat /\ Len(bytes) \in Nat
  BY LenProperties
<1> QED BY <1>1, <1>2, <1>3, <1>4

\* After an error the file and the buffer still hold bytes.
LEMMA HoldsOrDropsTyped ==
    ASSUME disk \in Seq(Byte), NEW bytes \in Seq(Byte), HoldsOrDrops(bytes)
    PROVE  disk' \in Seq(Byte) /\ buffer' \in Seq(Byte)
<1>1. CASE Holds(bytes)
  BY <1>1, HoldsKeeps
<1>2. CASE \E n \in 0..Len(bytes) :
              disk' = disk \o Prefix(bytes, n) /\ buffer' = <<>>
  <2>1. PICK n \in 0..Len(bytes) :
           disk' = disk \o Prefix(bytes, n) /\ buffer' = <<>>
    BY <1>2
  <2>2. Prefix(bytes, n) \in Seq(Byte)
    BY Cut
  <2> QED BY <2>1, <2>2, ConcatProperties, EmptySeq
<1> QED BY <1>1, <1>2 DEF HoldsOrDrops

-----------------------------------------------------------------------------
(***************************************************************************)
(* The steps.                                                              *)
(***************************************************************************)
LEMMA InitInv == Init => IInv
<1> SUFFICES ASSUME Init PROVE IInv
  OBVIOUS
<1>1. TypeOK
  <2>1. <<>> \in Seq(Byte) /\ <<>> \in Seq([id : 0..MaxEvents, size : Sizes])
    BY EmptySeq
  <2>2. Defaults \in Options
    BY LimitsAssumption DEF Defaults, Options
  <2>3. NoEvent \in [id : 0..MaxEvents, size : Sizes \cup {1}]
    BY FileBounds DEF NoEvent
  <2>4. \A t \in Threads : pc[t] = "idle" /\ mutex # t
    BY ThreadsAssumption DEF Init
  <2>5. /\ pc \in [Threads -> {"idle", "dumped", "locked", "written"}]
        /\ line \in [Threads -> [id : 0..MaxEvents, size : Sizes \cup {1}]]
        /\ outcome \in [Threads -> {"none", "accepted", "refused", "failed"}]
    BY <2>3 DEF Init
  <2>6. disk \in Seq(Byte) /\ buffer \in Seq(Byte)
        /\ kept \in Seq([id : 0..MaxEvents, size : Sizes])
    BY <2>1 DEF Init
  <2>7. /\ options \in Options /\ open \in BOOLEAN /\ opens \in 0..MaxOpens
        /\ bytes_written \in Nat /\ mutex \in Threads \cup {NoThread}
        /\ events \in 0..MaxEvents /\ initial \in Nat /\ failed \in BOOLEAN
    <3>1. options \in Options /\ open \in BOOLEAN /\ failed \in BOOLEAN
          /\ mutex \in Threads \cup {NoThread}
      BY <2>2, Zenon DEF Init
    <3>2. opens \in 0..MaxOpens /\ events \in 0..MaxEvents
          /\ bytes_written \in Nat /\ initial \in Nat
      BY FileBounds DEF Init
    <3> QED BY <3>1, <3>2
  <2>8. \A t \in Threads : pc[t] \in {"locked", "written"} <=> mutex = t
    BY <2>4
  <2> QED BY <2>2, <2>5, <2>6, <2>7, <2>8 DEF TypeOK
<1>2. Recording /\ Counted /\ Pending /\ WithinLimit /\ buffer = <<>>
  BY DEF Init, Recording, Counted, Pending, WithinLimit
<1> QED BY <1>1, <1>2 DEF IInv

LEMMA OpenInv == ASSUME IInv, Open PROVE IInv'
<1> USE DEF IInv
<1>1. disk' \in Seq(Byte)
  BY EmptySeq DEF Open, TypeOK
<1>2. Len(disk') \in Nat
  BY <1>1, LenProperties
<1>3. kept' \in Seq([id : 0..MaxEvents, size : Sizes])
  BY EmptySeq DEF Open, TypeOK
<1>4. \A t \in Threads : pc[t] = "idle"
  BY DEF Open, Recording
<1>5. TypeOK'
  <2>1. opens' \in 0..MaxOpens
    BY FileBounds DEF Open, TypeOK
  <2> QED BY <1>1, <1>2, <1>3, <2>1 DEF Open, TypeOK
<1>6. buffer' = <<>> /\ Len(buffer') = 0
  BY EmptySeq DEF Open
<1>7. Recording'
  BY <1>4 DEF Open, Recording
<1>8. Counted' /\ Pending'
  BY <1>2, <1>4, <1>6 DEF Open, Counted, Pending, Stored
<1>9. WithinLimit'
  <2>1. options'.max_bytes \in Nat
    BY <1>5, LimitsAssumption DEF TypeOK, Options
  <2>2. initial' = Len(disk')
    BY DEF Open
  <2> QED BY <1>2, <1>6, <2>1, <2>2 DEF WithinLimit
<1> QED BY <1>5, <1>6, <1>7, <1>8, <1>9

LEMMA DumpInv ==
    ASSUME IInv, NEW t \in Threads, NEW size \in Sizes, Dump(t, size)
    PROVE  IInv'
<1> USE DEF IInv
<1>1. events' \in 0..MaxEvents
  BY FileBounds DEF Dump, TypeOK
<1>2. line' \in [Threads -> [id : 0..MaxEvents, size : Sizes \cup {1}]]
  BY <1>1 DEF Dump, TypeOK
<1>3. TypeOK'
  <2>1. pc' \in [Threads -> {"idle", "dumped", "locked", "written"}]
    BY DEF Dump, TypeOK
  <2>2. outcome' \in [Threads -> {"none", "accepted", "refused", "failed"}]
    BY DEF Dump, TypeOK
  <2>3. \A u \in Threads : pc'[u] \in {"locked", "written"} <=> mutex' = u
    BY DEF Dump, TypeOK
  <2> QED BY <1>1, <1>2, <2>1, <2>2, <2>3
          DEF Dump, TypeOK, file, object
<1>4. Recording'
  BY DEF Dump, Recording, TypeOK, object
<1>5. \A u \in Threads : pc'[u] = "written" <=> pc[u] = "written"
  BY DEF Dump, TypeOK
<1>6. \A u \in Threads : pc[u] = "written" => line'[u] = line[u]
  BY DEF Dump, TypeOK
<1>7. Counted' /\ Pending' /\ WithinLimit' /\ (~open' => buffer' = <<>>)
  BY <1>5, <1>6
  DEF Dump, Counted, Pending, WithinLimit, Stored, file, object
<1> QED BY <1>3, <1>4, <1>7

LEMMA LockInv == ASSUME IInv, NEW t \in Threads, Lock(t) PROVE IInv'
<1> USE DEF IInv
<1>1. TypeOK'
  <2>1. pc' \in [Threads -> {"idle", "dumped", "locked", "written"}]
    BY DEF Lock, TypeOK
  <2>2. \A u \in Threads : pc'[u] \in {"locked", "written"} <=> mutex' = u
    BY ThreadsAssumption DEF Lock, TypeOK
  <2> QED BY <2>1, <2>2 DEF Lock, TypeOK, file, object
<1>2. Recording'
  BY DEF Lock, Recording, TypeOK, object
<1>3. \A u \in Threads : pc'[u] = "written" <=> pc[u] = "written"
  BY DEF Lock, TypeOK
<1>4. Counted' /\ Pending' /\ WithinLimit' /\ (~open' => buffer' = <<>>)
  BY <1>3 DEF Lock, Counted, Pending, WithinLimit, Stored, file, object
<1> QED BY <1>1, <1>2, <1>4

\* However record ends, the mutex is free and the thread idle.
LEMMA LeaveFrees ==
    ASSUME IInv, NEW t \in Threads, mutex = t,
           NEW how \in {"accepted", "refused", "failed"}, Leave(t, how)
    PROVE  /\ mutex' = NoThread
           /\ \A u \in Threads : pc'[u] \in {"idle", "dumped"}
           /\ \A u \in Threads : pc'[u] = IF u = t THEN "idle" ELSE pc[u]
           /\ pc' \in [Threads -> {"idle", "dumped", "locked", "written"}]
           /\ line' \in [Threads -> [id : 0..MaxEvents, size : Sizes \cup {1}]]
           /\ outcome' \in [Threads -> {"none", "accepted", "refused", "failed"}]
           /\ Recording'
<1> USE DEF IInv
<1>1. \A u \in Threads : pc'[u] = IF u = t THEN "idle" ELSE pc[u]
  BY DEF Leave, TypeOK
<1>2. pc' \in [Threads -> {"idle", "dumped", "locked", "written"}]
  BY DEF Leave, TypeOK
<1>3. \A u \in Threads : u # t => pc[u] \in {"idle", "dumped"}
  BY DEF TypeOK
<1>4. \A u \in Threads : pc'[u] \in {"idle", "dumped"}
  BY <1>1, <1>3
<1>5. NoEvent \in [id : 0..MaxEvents, size : Sizes \cup {1}]
  BY FileBounds DEF NoEvent
<1>6. line' \in [Threads -> [id : 0..MaxEvents, size : Sizes \cup {1}]]
  BY <1>5 DEF Leave, TypeOK
<1>7. outcome' \in [Threads -> {"none", "accepted", "refused", "failed"}]
  BY DEF Leave, TypeOK
<1>8. \A u \in Threads : u # t => line'[u] = line[u]
  BY DEF Leave, TypeOK
<1>9. Recording'
  BY <1>1, <1>8 DEF Leave, Recording, object
<1> QED BY <1>1, <1>2, <1>4, <1>6, <1>7, <1>9 DEF Leave

\* Whoever is past Lock holds the mutex and records a line of some size.
LEMMA Holder ==
    ASSUME IInv, NEW t \in Threads, pc[t] \in {"locked", "written"}
    PROVE  /\ mutex = t /\ open
           /\ line[t] \in Lines /\ line[t].size \in Sizes
           /\ line[t].size \in Nat \ {0}
           /\ \A u \in Threads : u # t => pc[u] \in {"idle", "dumped"}
<1>1. mutex = t /\ \A u \in Threads : u # t => pc[u] \in {"idle", "dumped"}
  BY DEF IInv, TypeOK
<1>2. open /\ line[t].size \in Sizes
  BY DEF IInv, Recording
<1>3. line[t] \in Lines
  BY DEF IInv, TypeOK, Lines
<1> QED BY <1>1, <1>2, <1>3, SizesAssumption

LEMMA RefuseInv == ASSUME IInv, NEW t \in Threads, Refuse(t) PROVE IInv'
<1>1. mutex = t /\ \A u \in Threads : pc[u] # "written"
  <2>1. pc[t] = "locked"
    BY DEF Refuse
  <2> QED BY <2>1, Holder
<1>2. Leave(t, "refused")
  BY DEF Refuse
<1>3. TypeOK'
  <2>1. mutex' = NoThread /\ \A u \in Threads : pc'[u] \in {"idle", "dumped"}
    BY <1>1, <1>2, LeaveFrees
  <2>2. \A u \in Threads : pc'[u] \in {"locked", "written"} <=> mutex' = u
    BY <2>1, ThreadsAssumption
  <2>3. /\ pc' \in [Threads -> {"idle", "dumped", "locked", "written"}]
        /\ line' \in [Threads -> [id : 0..MaxEvents, size : Sizes \cup {1}]]
        /\ outcome' \in [Threads -> {"none", "accepted", "refused", "failed"}]
    BY <1>1, <1>2, LeaveFrees
  <2> QED BY <2>1, <2>2, <2>3
          DEF Refuse, Leave, IInv, TypeOK, file, object
<1>4. Recording' /\ \A u \in Threads : pc'[u] # "written"
  BY <1>1, <1>2, LeaveFrees
<1>5. Counted' /\ Pending' /\ WithinLimit' /\ (~open' => buffer' = <<>>)
  BY <1>1, <1>4
  DEF Refuse, Leave, IInv, Counted, Pending, WithinLimit, Stored, file, object
<1> QED BY <1>3, <1>4, <1>5 DEF IInv

\* The line fits when the limit check passes, also if the count is too small.
LEMMA Fits ==
    ASSUME NEW size \in Nat \ {0}, bytes_written \in Nat,
           options.max_bytes \in Nat, options.max_bytes # 0, ~Exceeds(size)
    PROVE  bytes_written + size <= options.max_bytes
BY DEF Exceeds, Smaller

LEMMA WriteInv == ASSUME IInv, NEW t \in Threads, Write(t) PROVE IInv'
<1> DEFINE bytes == buffer \o Line(line[t])
           size == line[t].size
<1>1. pc[t] = "locked"
  BY DEF Write
<1>2. /\ mutex = t /\ open /\ line[t] \in Lines /\ size \in Nat \ {0}
      /\ \A u \in Threads : u # t => pc[u] \in {"idle", "dumped"}
  BY <1>1, Holder
<1>3. Line(line[t]) \in Seq(Byte) /\ Len(Line(line[t])) = size
  BY <1>2, LineIsBytes
<1>4. disk \in Seq(Byte) /\ buffer \in Seq(Byte)
  BY DEF IInv, TypeOK
<1>5. bytes \in Seq(Byte) /\ Len(bytes) = Len(buffer) + size
  BY <1>3, <1>4, ConcatProperties
<1>6. Holds(bytes)
  BY DEF Write
<1>7. /\ disk' \in Seq(Byte) /\ buffer' \in Seq(Byte)
      /\ Len(disk') + Len(buffer') = Len(disk) + Len(buffer) + size
  <2> HIDE DEF bytes
  <2>1. /\ disk' \in Seq(Byte) /\ buffer' \in Seq(Byte)
        /\ Len(disk') + Len(buffer') = Len(disk) + Len(bytes)
    BY <1>4, <1>5, <1>6, HoldsKeeps
  <2>2. Len(disk) \in Nat /\ Len(buffer) \in Nat
    BY <1>4, LenProperties
  <2> QED BY <1>2, <1>5, <2>1, <2>2
<1>8. pc' = [pc EXCEPT ![t] = "written"] /\ line' = line /\ mutex' = mutex
  BY DEF Write
<1>9. \A u \in Threads : pc'[u] = IF u = t THEN "written" ELSE pc[u]
  BY <1>8 DEF IInv, TypeOK
<1>10. TypeOK'
  <2>1. pc' \in [Threads -> {"idle", "dumped", "locked", "written"}]
    BY <1>8 DEF IInv, TypeOK
  <2>2. \A u \in Threads : pc'[u] \in {"locked", "written"} <=> mutex' = u
    BY <1>1, <1>8, <1>9 DEF IInv, TypeOK
  <2> QED BY <1>7, <2>1, <2>2 DEF Write, IInv, TypeOK, object
<1>11. Recording' /\ open'
  BY <1>1, <1>2, <1>8, <1>9 DEF Write, IInv, Recording, object
<1>12. open /\ ~failed => bytes_written = Stored
  BY <1>1, <1>2 DEF IInv, Counted
<1>13. bytes_written \in Nat /\ Len(disk) \in Nat /\ Len(buffer) \in Nat
  BY <1>4, LenProperties DEF IInv, TypeOK
<1>14. Counted' /\ Pending'
  <2>1. \A u \in Threads : pc'[u] = "written" => u = t
    BY <1>2, <1>9
  <2>2. pc'[t] = "written"
    BY <1>9
  <2>3. ~failed' => bytes_written' + size = Stored'
    BY <1>2, <1>7, <1>12, <1>13 DEF Write, Stored
  <2> QED BY <1>8, <2>1, <2>2, <2>3 DEF Counted, Pending
<1>15. WithinLimit'
  <2> SUFFICES ASSUME ~failed, options.max_bytes # 0
               PROVE  Stored' <= options.max_bytes
    <3>1. initial \in Nat /\ options.max_bytes \in Nat
      BY LimitsAssumption DEF IInv, TypeOK, Options
    <3>2. Stored' \in Nat
      BY <1>2, <1>7, <1>13 DEF Stored
    <3> QED BY <3>1, <3>2 DEF Write, WithinLimit, Stored, object
  <2>1. options.max_bytes \in Nat
    BY LimitsAssumption DEF IInv, TypeOK, Options
  <2>2. ~Exceeds(size)
    BY DEF Write
  <2>3. bytes_written + size <= options.max_bytes
    BY <1>2, <1>13, <2>1, <2>2, Fits
  <2> QED BY <1>2, <1>7, <1>12, <1>13, <2>3 DEF Stored
<1> QED BY <1>10, <1>11, <1>14, <1>15 DEF IInv

\* Failing steps leave the count behind and nothing is claimed any more.
LEMMA FailedInv ==
    ASSUME IInv, NEW t \in Threads, pc[t] \in {"locked", "written"},
           NEW bytes \in Seq(Byte), HoldsOrDrops(bytes),
           failed' = TRUE, Leave(t, "failed"),
           UNCHANGED <<bytes_written, kept>>
    PROVE  IInv'
<1>1. disk \in Seq(Byte)
  BY DEF IInv, TypeOK
<1>2. disk' \in Seq(Byte) /\ buffer' \in Seq(Byte)
  BY <1>1, HoldsOrDropsTyped
<1>3. mutex = t /\ open
  BY Holder
<1>4. mutex' = NoThread /\ \A u \in Threads : pc'[u] \in {"idle", "dumped"}
  BY <1>3, LeaveFrees
<1>5. \A u \in Threads : pc'[u] \in {"locked", "written"} <=> mutex' = u
  BY <1>4, ThreadsAssumption
<1>6. /\ pc' \in [Threads -> {"idle", "dumped", "locked", "written"}]
      /\ line' \in [Threads -> [id : 0..MaxEvents, size : Sizes \cup {1}]]
      /\ outcome' \in [Threads -> {"none", "accepted", "refused", "failed"}]
      /\ Recording'
  BY <1>3, LeaveFrees
<1>7. TypeOK'
  BY <1>2, <1>4, <1>5, <1>6 DEF Leave, IInv, TypeOK, object
<1>8. Counted' /\ Pending' /\ WithinLimit' /\ open'
  BY <1>3 DEF Leave, Counted, Pending, WithinLimit, object
<1> QED BY <1>6, <1>7, <1>8 DEF IInv

LEMMA WriteFailsInv == ASSUME IInv, NEW t \in Threads, WriteFails(t) PROVE IInv'
<1>1. pc[t] = "locked"
  BY DEF WriteFails
<1>2. line[t] \in Lines /\ line[t].size \in Nat \ {0}
  BY <1>1, Holder
<1>3. Line(line[t]) \in Seq(Byte) /\ Len(Line(line[t])) = line[t].size
  BY <1>2, LineIsBytes
<1>4. PICK n \in 0..(line[t].size - 1) :
         HoldsOrDrops(buffer \o Prefix(Line(line[t]), n))
  BY DEF WriteFails
<1>5. Prefix(Line(line[t]), n) \in Seq(Byte)
  <2>1. n \in 0..Len(Line(line[t]))
    BY <1>2, <1>3
  <2> QED BY <1>3, <2>1, Cut
<1>6. buffer \o Prefix(Line(line[t]), n) \in Seq(Byte)
  <2>1. buffer \in Seq(Byte)
    BY DEF IInv, TypeOK
  <2> QED BY <1>5, <2>1, ConcatProperties
<1> QED BY <1>1, <1>4, <1>6, FailedInv DEF WriteFails

LEMMA FlushFailsInv == ASSUME IInv, NEW t \in Threads, FlushFails(t) PROVE IInv'
<1>1. buffer \in Seq(Byte)
  BY DEF IInv, TypeOK
<1> QED BY <1>1, FailedInv DEF FlushFails

LEMMA AcceptInv == ASSUME IInv, NEW t \in Threads, Accept(t) PROVE IInv'
<1>1. pc[t] = "written" /\ Leave(t, "accepted")
  BY DEF Accept
<1>2. /\ mutex = t /\ open /\ line[t] \in Lines /\ line[t].size \in Sizes
      /\ line[t].size \in Nat \ {0}
  BY <1>1, Holder
<1>3. disk \in Seq(Byte) /\ buffer \in Seq(Byte)
      /\ Len(disk) \in Nat /\ Len(buffer) \in Nat
  BY LenProperties DEF IInv, TypeOK
<1>4. disk' \in Seq(Byte) /\ buffer' \in Seq(Byte) /\ Stored' = Stored
  <2>1. CASE UNCHANGED file
    BY <1>3, <2>1 DEF file, Stored
  <2>2. CASE disk' = disk \o buffer /\ buffer' = <<>>
    <3>1. disk \o buffer \in Seq(Byte)
          /\ Len(disk \o buffer) = Len(disk) + Len(buffer)
      BY <1>3, ConcatProperties
    <3>2. buffer' \in Seq(Byte) /\ Len(buffer') = 0
      BY <2>2, EmptySeq
    <3> QED BY <1>3, <2>2, <3>1, <3>2 DEF Stored
  <2> QED BY <2>1, <2>2 DEF Accept
<1>5. kept' \in Seq([id : 0..MaxEvents, size : Sizes])
  <2>1. line[t] \in [id : 0..MaxEvents, size : Sizes]
    BY <1>2 DEF Lines
  <2>2. kept \in Seq([id : 0..MaxEvents, size : Sizes])
    BY DEF IInv, TypeOK
  <2>3. kept' = kept \/ kept' = Append(kept, line[t])
    BY DEF Accept
  <2>4. Append(kept, line[t]) \in Seq([id : 0..MaxEvents, size : Sizes])
    BY <2>1, <2>2, AppendProperties
  <2> QED BY <2>2, <2>3, <2>4
<1>6. /\ mutex' = NoThread
      /\ \A u \in Threads : pc'[u] \in {"idle", "dumped"}
      /\ pc' \in [Threads -> {"idle", "dumped", "locked", "written"}]
      /\ line' \in [Threads -> [id : 0..MaxEvents, size : Sizes \cup {1}]]
      /\ outcome' \in [Threads -> {"none", "accepted", "refused", "failed"}]
      /\ Recording'
  BY <1>1, <1>2, LeaveFrees
<1>7. bytes_written \in Nat /\ bytes_written' = bytes_written + line[t].size
  BY DEF Accept, IInv, TypeOK
<1>8. TypeOK'
  <2>1. \A u \in Threads : pc'[u] \in {"locked", "written"} <=> mutex' = u
    BY <1>6, ThreadsAssumption
  <2>2. bytes_written' \in Nat
    BY <1>2, <1>7
  <2> QED BY <1>4, <1>5, <1>6, <2>1, <2>2
          DEF Accept, Leave, IInv, TypeOK, object
<1>9. Counted' /\ Pending'
  <2>1. open /\ ~failed => bytes_written + line[t].size = Stored
    BY <1>1 DEF IInv, Pending
  <2>2. open' = open /\ failed' = failed
    BY DEF Accept, Leave, object
  <2> QED BY <1>4, <1>6, <1>7, <2>1, <2>2 DEF Counted, Pending
<1>10. WithinLimit' /\ open'
  BY <1>2, <1>4 DEF Accept, Leave, IInv, WithinLimit, Stored, object
<1> QED BY <1>6, <1>8, <1>9, <1>10 DEF IInv

\* When the object is gone nothing is buffered, pending or claimed.
LEMMA GoneInv == ASSUME IInv, Gone, disk' \in Seq(Byte) PROVE IInv'
<1>1. pc' = [t \in Threads |-> "idle"] /\ mutex' = NoThread
      /\ open' = FALSE /\ buffer' = <<>>
  BY DEF Gone
<1>2. TypeOK'
  <2>1. Defaults \in Options
    BY LimitsAssumption DEF Defaults, Options
  <2>2. NoEvent \in [id : 0..MaxEvents, size : Sizes \cup {1}]
    BY FileBounds DEF NoEvent
  <2>3. \A t \in Threads : pc'[t] \in {"locked", "written"} <=> mutex' = t
    BY <1>1, ThreadsAssumption
  <2>4. <<>> \in Seq(Byte)
    BY EmptySeq
  <2> QED BY <2>1, <2>2, <2>3, <2>4 DEF Gone, IInv, TypeOK
<1>3. Recording' /\ Counted' /\ Pending' /\ WithinLimit'
  BY <1>1 DEF Recording, Counted, Pending, WithinLimit
<1> QED BY <1>1, <1>2, <1>3 DEF IInv

LEMMA CloseInv == ASSUME IInv, Close PROVE IInv'
<1>1. PICK n \in 0..Len(buffer) : disk' = disk \o Prefix(buffer, n)
  BY DEF Close
<1>2. disk \in Seq(Byte) /\ buffer \in Seq(Byte)
  BY DEF IInv, TypeOK
<1>3. Prefix(buffer, n) \in Seq(Byte)
  BY <1>2, Cut
<1>4. disk' \in Seq(Byte)
  BY <1>1, <1>2, <1>3, ConcatProperties
<1> QED BY <1>4, GoneInv DEF Close

LEMMA CrashInv == ASSUME IInv, Crash PROVE IInv'
<1>1. disk' \in Seq(Byte)
  BY DEF Crash, IInv, TypeOK
<1> QED BY <1>1, GoneInv DEF Crash

LEMMA NextInv == ASSUME IInv, [Next]_vars PROVE IInv'
<1>1. CASE UNCHANGED vars
  BY <1>1 DEF vars, file, object, IInv, TypeOK, Recording, Counted, Pending,
              Stored, WithinLimit
<1>2. ASSUME NEW t \in Threads, Record(t) PROVE IInv'
  BY <1>2, LockInv, RefuseInv, WriteInv, WriteFailsInv, FlushFailsInv, AcceptInv
  DEF Record
<1>3. CASE Open \/ Close \/ Crash
  BY <1>3, OpenInv, CloseInv, CrashInv
<1>4. ASSUME NEW t \in Threads, NEW size \in Sizes, Dump(t, size) PROVE IInv'
  BY <1>4, DumpInv
<1> QED BY <1>1, <1>2, <1>3, <1>4 DEF Next

-----------------------------------------------------------------------------
(***************************************************************************)
(* The theorems.                                                           *)
(***************************************************************************)
\* bytes_written is the size of what the stream holds whenever the mutex is
\* free and no write failed.
THEOREM Inductive == Spec => []IInv
<1>1. Init => IInv
  BY InitInv
<1>2. IInv /\ [Next]_vars => IInv'
  BY NextInv
<1> QED BY <1>1, <1>2, PTL DEF Spec

\* Every variable of FileTracer keeps its type, and a thread is between the
\* lock and the unlock of record exactly when it owns the mutex.
THEOREM TypeCorrect == Spec => []TypeOK
<1>1. IInv => TypeOK
  BY DEF IInv
<1> QED BY <1>1, Inductive, PTL

\* max_bytes holds for any number of threads, sizes and restarts, as long as
\* no write has failed since the file was opened.
THEOREM Limit == Spec => []WithinLimit
<1>1. IInv => WithinLimit
  BY DEF IInv
<1> QED BY <1>1, Inductive, PTL

\* record refuses an event only if its line does not fit.
THEOREM Refusal == Spec => RefusesOnlyWhenFull
<1> DEFINE P(t) ==
      outcome'[t] = "refused" /\ outcome[t] # "refused" /\ ~failed =>
          Len(disk) + Len(buffer) + line[t].size > options.max_bytes
<1>1. ASSUME IInv, [Next]_vars, NEW t \in Threads PROVE P(t)
  <2>1. ASSUME NEW u \in Threads, Refuse(u) PROVE P(t)
    <3>1. CASE t = u
      <4>1. pc[t] = "locked" /\ Exceeds(line[t].size)
        BY <2>1, <3>1 DEF Refuse
      <4>2. open /\ line[t].size \in Nat /\ \A v \in Threads : pc[v] # "written"
        BY <4>1, <1>1, Holder
      <4>3. ~failed => bytes_written = Len(disk) + Len(buffer)
        BY <1>1, <4>2 DEF IInv, Counted, Stored
      <4>4. bytes_written \in Nat /\ options.max_bytes \in Nat
        BY <1>1, LimitsAssumption DEF IInv, TypeOK, Options
      <4> QED BY <4>1, <4>2, <4>3, <4>4 DEF Exceeds, Smaller
    <3>2. CASE t # u
      BY <2>1, <3>2, <1>1 DEF Refuse, Leave, IInv, TypeOK
    <3> QED BY <3>1, <3>2
  <2>2. ASSUME outcome'[t] # "refused" \/ outcome' = outcome PROVE P(t)
    BY <2>2
  <2>3. CASE UNCHANGED vars \/ Open \/ (\E u \in Threads : Lock(u) \/ Write(u))
    BY <2>2, <2>3 DEF vars, Open, Lock, Write
  <2>4. CASE Close \/ Crash
    BY <2>2, <2>4 DEF Close, Crash, Gone
  <2>5. ASSUME NEW u \in Threads,
               WriteFails(u) \/ FlushFails(u) \/ Accept(u)
                 \/ \E size \in Sizes : Dump(u, size)
        PROVE  P(t)
    <3>1. PICK how \in {"none", "failed", "accepted"} :
             outcome' = [outcome EXCEPT ![u] = how]
      BY <2>5 DEF WriteFails, FlushFails, Accept, Dump, Leave
    <3> QED BY <1>1, <3>1 DEF IInv, TypeOK
  <2> QED BY <1>1, <2>1, <2>3, <2>4, <2>5 DEF Next, Record
<1>2. IInv /\ [Next]_vars => [\A t \in Threads : P(t)]_vars
  BY <1>1
<1> QED BY <1>2, Inductive, PTL DEF Spec, RefusesOnlyWhenFull

-----------------------------------------------------------------------------
(***************************************************************************)
(* Events that survive.                                                    *)
(***************************************************************************)
\* The whole line of e is in s, from position k on.
Whole(s, k, e) ==
    /\ k \in Nat \ {0}
    /\ k + e.size - 1 <= Len(s)
    /\ \A i \in 1..e.size : s[k + i - 1] = Line(e)[i]

\* The lines of the kept events are in the first n bytes of the file, in order.
Places(start, n) ==
    /\ start \in [DOMAIN kept -> Nat]
    /\ \A k \in DOMAIN kept :
          Whole(disk, start[k], kept[k]) /\ start[k] + kept[k].size - 1 <= n
    /\ \A j, k \in DOMAIN kept : j < k => start[j] < start[k]

\* Between fwrite and the end of record the line is the last thing in the file
\* and the buffer, and what was kept before lies before it.
Ending(e) ==
    /\ Len(disk \o buffer) - e.size \in Nat
    /\ Whole(disk \o buffer, Len(disk \o buffer) - e.size + 1, e)
    /\ \E start : Places(start, Len(disk \o buffer) - e.size)

Survival ==
    /\ \E start : Places(start, Len(disk))
    /\ \A t \in Threads : pc[t] = "written" => Ending(line[t])

Events == [id : 0..MaxEvents, size : Sizes]

LEMMA KeptEvents ==
    ASSUME IInv
    PROVE  /\ kept \in Seq(Events) /\ Len(kept) \in Nat
           /\ DOMAIN kept = 1..Len(kept)
           /\ \A k \in DOMAIN kept : kept[k] \in Lines /\ kept[k].size \in Nat \ {0}
<1>1. kept \in Seq(Events)
  BY DEF IInv, TypeOK, Events
<1>2. Len(kept) \in Nat /\ DOMAIN kept = 1..Len(kept)
  BY <1>1, LenProperties
<1>3. \A k \in DOMAIN kept : kept[k] \in Events
  BY <1>1, <1>2, ElementOfSeq
<1> QED BY <1>1, <1>2, <1>3, SizesAssumption DEF Events, Lines

LEMMA Streams ==
    ASSUME IInv
    PROVE  /\ disk \in Seq(Byte) /\ buffer \in Seq(Byte)
           /\ disk \o buffer \in Seq(Byte)
           /\ Len(disk) \in Nat /\ Len(buffer) \in Nat
           /\ Len(disk \o buffer) = Len(disk) + Len(buffer)
<1>1. disk \in Seq(Byte) /\ buffer \in Seq(Byte)
  BY DEF IInv, TypeOK
<1> QED BY <1>1, LenProperties, ConcatProperties

\* A file that grows keeps the lines in it.
LEMMA WholeGrows ==
    ASSUME NEW s \in Seq(Byte), NEW p \in Seq(Byte), NEW k, NEW e \in Lines,
           e.size \in Nat \ {0}, Whole(s, k, e)
    PROVE  Whole(s \o p, k, e)
<1>1. Len(s) \in Nat /\ Len(p) \in Nat /\ Len(s \o p) = Len(s) + Len(p)
  BY LenProperties, ConcatProperties
<1>2. \A i \in 1..Len(s) : (s \o p)[i] = s[i]
  BY <1>1, ConcatProperties
<1>3. \A i \in 1..e.size : k + i - 1 \in 1..Len(s)
  BY <1>1 DEF Whole
<1> QED BY <1>1, <1>2, <1>3 DEF Whole

LEMMA PlacesGrow ==
    ASSUME IInv, NEW start, NEW n \in Nat, Places(start, n),
           NEW p \in Seq(Byte), disk' = disk \o p, kept' = kept
    PROVE  Places(start, n)'
<1>1. disk \in Seq(Byte)
  BY Streams
<1>2. \A k \in DOMAIN kept : Whole(disk', start[k], kept[k])
  BY <1>1, KeptEvents, WholeGrows DEF Places
<1> QED BY <1>2 DEF Places

LEMMA PlacesWeaken ==
    ASSUME IInv, NEW start, NEW n \in Nat, Places(start, n), NEW m \in Nat, n <= m
    PROVE  Places(start, m)
<1>1. \A k \in DOMAIN kept : start[k] \in Nat /\ kept[k].size \in Nat
  BY KeptEvents DEF Places
<1> QED BY <1>1 DEF Places

\* A step that only adds to the file keeps what is in it.
LEMMA FileGrows ==
    ASSUME IInv, Survival, NEW p \in Seq(Byte), disk' = disk \o p, kept' = kept
    PROVE  (\E start : Places(start, Len(disk)))'
<1>1. PICK start : Places(start, Len(disk))
  BY DEF Survival
<1>2. Len(disk) \in Nat /\ Len(disk') \in Nat /\ Len(disk) <= Len(disk')
  BY Streams, ConcatProperties, LenProperties
<1>3. \A k \in DOMAIN kept : start[k] \in Nat /\ kept[k].size \in Nat
  BY <1>1, KeptEvents DEF Places
<1>4. \A n : n = Len(disk) => Places(start, n)'
  BY <1>1, <1>2, PlacesGrow
<1>5. Places(start, Len(disk))'
  BY <1>2, <1>3, <1>4 DEF Places
<1> QED BY <1>5

LEMMA BytesAssociate ==
    ASSUME NEW a \in Seq(Byte), NEW b \in Seq(Byte), NEW c \in Seq(Byte)
    PROVE  (a \o b) \o c = a \o (b \o c)
BY ConcatAssociative

\* What a stream has passed on is the beginning of what it holds.
LEMMA HoldsGrows ==
    ASSUME disk \in Seq(Byte), NEW bytes \in Seq(Byte), Holds(bytes)
    PROVE  /\ \E p \in Seq(Byte) : disk' = disk \o p
           /\ disk' \o buffer' = disk \o bytes
<1>1. PICK n \in 0..Len(bytes) :
         disk' = disk \o Prefix(bytes, n) /\ buffer' = Suffix(bytes, n)
  BY DEF Holds
<1>2. Prefix(bytes, n) \in Seq(Byte) /\ Suffix(bytes, n) \in Seq(Byte)
  BY Cut
<1>3. Prefix(bytes, n) \o Suffix(bytes, n) = bytes
  <2>1. /\ 1 \in 1..(Len(bytes) + 1) /\ n \in (1 - 1)..Len(bytes)
        /\ Len(bytes) \in n..Len(bytes)
    BY LenProperties
  <2>2. SubSeq(bytes, 1, n) \o SubSeq(bytes, n + 1, Len(bytes)) = SubSeq(bytes, 1, Len(bytes))
    BY <2>1, ConcatAdjacentSubSeq
  <2> QED BY <2>2, SubSeqFull DEF Prefix, Suffix
<1>4. (disk \o Prefix(bytes, n)) \o Suffix(bytes, n)
         = disk \o (Prefix(bytes, n) \o Suffix(bytes, n))
  <2>1. PICK a, b, c : a = disk /\ b = Prefix(bytes, n) /\ c = Suffix(bytes, n)
    OBVIOUS
  <2>2. a \in Seq(Byte) /\ b \in Seq(Byte) /\ c \in Seq(Byte)
    BY <1>2, <2>1
  <2>3. (a \o b) \o c = a \o (b \o c)
    BY <2>2, BytesAssociate, ZenonT(40)
  <2> QED BY <2>1, <2>3
<1> QED BY <1>1, <1>2, <1>3, <1>4

LEMMA HoldsOrDropsGrows ==
    ASSUME disk \in Seq(Byte), NEW bytes \in Seq(Byte), HoldsOrDrops(bytes)
    PROVE  \E p \in Seq(Byte) : disk' = disk \o p
<1>1. CASE Holds(bytes)
  BY <1>1, HoldsGrows
<1>2. CASE \E n \in 0..Len(bytes) :
              disk' = disk \o Prefix(bytes, n) /\ buffer' = <<>>
  BY <1>2, Cut
<1> QED BY <1>1, <1>2 DEF HoldsOrDrops

\* Steps after which no thread is between fwrite and the end of record.
LEMMA GrowsSurvival ==
    ASSUME IInv, Survival, NEW p \in Seq(Byte), disk' = disk \o p, kept' = kept,
           \A t \in Threads : pc'[t] # "written"
    PROVE  Survival'
  BY FileGrows DEF Survival

\* Steps that leave the file and whoever is recording alone.
LEMMA UntouchedSurvival ==
    ASSUME IInv, Survival, UNCHANGED <<file, kept>>,
           \A t \in Threads : pc'[t] = "written" => pc[t] = "written" /\ line'[t] = line[t]
    PROVE  Survival'
<1>1. \A start, n : Places(start, n) => Places(start, n)'
  BY DEF Places, file
<1>2. (\E start : Places(start, Len(disk)))'
  BY <1>1 DEF Survival, file
<1>3. \A e : Ending(e) => Ending(e)'
  BY <1>1 DEF Ending, file
<1> QED BY <1>2, <1>3 DEF Survival

LEMMA WriteSurvival ==
    ASSUME IInv, Survival, NEW t \in Threads, Write(t)
    PROVE  Survival'
<1>1. PICK e, new, old, bytes :
         /\ e = line[t] /\ new = Line(e)
         /\ old = disk \o buffer /\ bytes = buffer \o new
  OBVIOUS
<1>2. /\ e \in Lines /\ e.size \in Nat \ {0}
      /\ \A u \in Threads : u # t => pc[u] \in {"idle", "dumped"}
  <2>1. pc[t] = "locked"
    BY DEF Write
  <2> QED BY <1>1, <2>1, Holder
<1>3. new \in Seq(Byte) /\ Len(new) = e.size
  BY <1>1, <1>2, LineIsBytes
<1>4. /\ disk \in Seq(Byte) /\ buffer \in Seq(Byte) /\ old \in Seq(Byte)
      /\ Len(disk) \in Nat /\ Len(buffer) \in Nat
      /\ Len(old) = Len(disk) + Len(buffer) /\ Len(old) \in Nat
  BY <1>1, Streams
<1>5. bytes \in Seq(Byte) /\ Holds(bytes)
  BY <1>1, <1>3, <1>4, ConcatProperties DEF Write
<1>6. PICK p \in Seq(Byte) : disk' = disk \o p /\ disk' \o buffer' = disk \o bytes
  BY <1>4, <1>5, HoldsGrows
<1>7. disk' \o buffer' = old \o new
  <2>1. disk \in Seq(Byte) /\ buffer \in Seq(Byte) /\ new \in Seq(Byte)
    BY <1>3, <1>4
  <2>2. (disk \o buffer) \o new = disk \o (buffer \o new)
    BY <2>1, BytesAssociate, SMTT(30)
  <2> QED BY <1>1, <1>6, <2>2
<1>8. /\ Len(old \o new) = Len(old) + e.size
      /\ \A i \in 1..(Len(old) + e.size) :
            (old \o new)[i] = IF i <= Len(old) THEN old[i] ELSE new[i - Len(old)]
  <2>1. old \in Seq(Byte) /\ new \in Seq(Byte)
    BY <1>3, <1>4
  <2>2. /\ Len(old \o new) = Len(old) + Len(new)
        /\ \A i \in 1..(Len(old) + Len(new)) :
              (old \o new)[i] = IF i <= Len(old) THEN old[i] ELSE new[i - Len(old)]
    BY <2>1, ConcatProperties
  <2> QED BY <1>3, <2>2
<1>9. Whole(old \o new, Len(old) + 1, e)
  <2>1. \A i \in 1..e.size :
           /\ (Len(old) + 1) + i - 1 = Len(old) + i
           /\ Len(old) + i \in 1..(Len(old) + e.size)
           /\ ~(Len(old) + i <= Len(old)) /\ (Len(old) + i) - Len(old) = i
    BY <1>2, <1>4
  <2>2. \A i \in 1..e.size : (old \o new)[(Len(old) + 1) + i - 1] = new[i]
    BY <1>8, <2>1
  <2> QED BY <1>1, <1>2, <1>4, <1>8, <2>2, SMTT(30) DEF Whole
<1>10. kept' = kept /\ line' = line
  BY DEF Write
<1>11. PICK start : Places(start, Len(disk))
  BY DEF Survival
<1>12. Places(start, Len(old))
  BY <1>4, <1>11, PlacesWeaken
<1>13. Places(start, Len(old))'
  <2>1. \A n \in Nat : Places(start, n) => Places(start, n)'
    BY <1>6, <1>10, PlacesGrow
  <2> QED BY <1>4, <1>12, <2>1
<1>14. Ending(e)'
  <2>1. Len(old \o new) - e.size = Len(old)
    BY <1>2, <1>4, <1>8
  <2> QED BY <1>4, <1>7, <1>9, <1>13, <2>1 DEF Ending
<1>15. \A u \in Threads : pc'[u] = "written" => line'[u] = e
  BY <1>1, <1>2, <1>10 DEF Write, IInv, TypeOK
<1>16. (\E s : Places(s, Len(disk)))'
  BY <1>6, <1>10, FileGrows
<1> QED BY <1>14, <1>15, <1>16 DEF Survival

\* With flush_each_event the line reaches the file, behind those before it.
LEMMA FlushSurvival ==
    ASSUME IInv, Survival, NEW t \in Threads, pc[t] = "written",
           disk' = disk \o buffer, buffer' = <<>>, kept' = Append(kept, line[t])
    PROVE  (\E start : Places(start, Len(disk)))'
<1>1. PICK e, n, last :
         e = line[t] /\ n = Len(disk \o buffer) - e.size /\ last = Len(kept)
  OBVIOUS
<1>2. e \in Lines /\ e \in Events /\ e.size \in Nat \ {0}
  BY <1>1, Holder DEF Lines, Events
<1>3. n \in Nat /\ Whole(disk \o buffer, n + 1, e) /\ \E start : Places(start, n)
  BY <1>1 DEF Survival, Ending
<1>4. PICK start : Places(start, n)
  BY <1>3
<1>5. DOMAIN kept = 1..last /\ last \in Nat /\ kept \in Seq(Events)
  BY <1>1, KeptEvents
<1>6. /\ DOMAIN kept' = 1..(last + 1) /\ kept'[last + 1] = e
      /\ \A k \in 1..last : kept'[k] = kept[k]
  <2>1. kept' = Append(kept, e) /\ last = Len(kept)
    BY <1>1
  <2>2. /\ Append(kept, e) \in Seq(Events)
        /\ Len(Append(kept, e)) = last + 1
        /\ \A k \in 1..last : Append(kept, e)[k] = kept[k]
        /\ Append(kept, e)[last + 1] = e
    BY <1>2, <1>5, <2>1, AppendProperties
  <2> QED BY <2>1, <2>2, LenProperties
<1>7. PICK there : there = [k \in 1..(last + 1) |-> IF k = last + 1 THEN n + 1 ELSE start[k]]
  OBVIOUS
<1>8. \A k \in 1..last : there[k] = start[k] /\ k # last + 1 /\ k \in 1..(last + 1)
  BY <1>5, <1>7
<1>9. there[last + 1] = n + 1
  BY <1>5, <1>7
<1>10. \A k \in 1..last : /\ start[k] \in Nat /\ kept[k] \in Lines
                          /\ kept[k].size \in Nat \ {0}
                          /\ Whole(disk, start[k], kept[k])
                          /\ start[k] + kept[k].size - 1 <= n
  BY <1>4, <1>5, KeptEvents DEF Places
<1>11. \A k \in 1..last : Whole(disk', there[k], kept'[k])
  BY <1>6, <1>8, <1>10, Streams, WholeGrows
<1>12. Whole(disk', there[last + 1], kept'[last + 1])
  BY <1>3, <1>6, <1>9
<1>13. \A k \in 1..(last + 1) : Whole(disk', there[k], kept'[k])
  BY <1>5, <1>11, <1>12
<1>14. \A j, k \in 1..(last + 1) : j < k => there[j] < there[k]
  <2>1. ASSUME NEW j \in 1..last PROVE there[j] < n + 1
    <3>1. PICK a, size : a = start[j] /\ size = kept[j].size
      OBVIOUS
    <3>2. a \in Nat /\ size \in Nat \ {0} /\ a + size - 1 <= n
      BY <1>10, <3>1
    <3>3. a < n + 1
      BY <1>3, <3>2
    <3> QED BY <1>8, <3>1, <3>3
  <2>2. \A j, k \in 1..last : j < k => there[j] < there[k]
    BY <1>4, <1>5, <1>8 DEF Places
  <2>3. SUFFICES ASSUME NEW j \in 1..(last + 1), NEW k \in 1..(last + 1), j < k
                 PROVE  there[j] < there[k]
    OBVIOUS
  <2>4. j \in 1..last /\ (k \in 1..last \/ k = last + 1)
    BY <1>5, <2>3
  <2> QED BY <1>9, <2>1, <2>2, <2>3, <2>4
<1>15. there \in [1..(last + 1) -> Nat]
  BY <1>3, <1>5, <1>7, <1>10
<1>16. \A k \in 1..(last + 1) : there[k] + kept'[k].size - 1 <= Len(disk')
  BY <1>13 DEF Whole
<1> QED BY <1>6, <1>13, <1>14, <1>15, <1>16 DEF Places

LEMMA AcceptSurvival ==
    ASSUME IInv, Survival, NEW t \in Threads, Accept(t)
    PROVE  Survival'
<1>1. pc[t] = "written" /\ Leave(t, "accepted")
  BY DEF Accept
<1>2. \A u \in Threads : pc'[u] # "written"
  <2>1. mutex = t
    BY <1>1, Holder
  <2> QED BY <1>1, <2>1, LeaveFrees
<1>3. CASE disk' = disk \o buffer /\ buffer' = <<>> /\ kept' = Append(kept, line[t])
  BY <1>1, <1>2, <1>3, FlushSurvival DEF Survival
<1>4. CASE UNCHANGED <<file, kept>>
  BY <1>2, <1>4, UntouchedSurvival
<1> QED BY <1>3, <1>4 DEF Accept

\* A write or flush that fails half way adds to the file, no more.
LEMMA FailureSurvival ==
    ASSUME IInv, Survival, NEW t \in Threads, WriteFails(t) \/ FlushFails(t)
    PROVE  Survival'
<1>1. pc[t] \in {"locked", "written"} /\ Leave(t, "failed") /\ kept' = kept
  BY DEF WriteFails, FlushFails
<1>2. \A u \in Threads : pc'[u] # "written"
  <2>1. mutex = t
    BY <1>1, Holder
  <2> QED BY <1>1, <2>1, LeaveFrees
<1>3. PICK bytes \in Seq(Byte) : HoldsOrDrops(bytes)
  <2>1. CASE FlushFails(t)
    BY <2>1, Streams DEF FlushFails
  <2>2. CASE WriteFails(t)
    <3>1. PICK n \in 0..(line[t].size - 1) :
             HoldsOrDrops(buffer \o Prefix(Line(line[t]), n))
      BY <2>2 DEF WriteFails
    <3>2. line[t] \in Lines /\ line[t].size \in Nat
      BY <1>1, Holder
    <3>3. Line(line[t]) \in Seq(Byte) /\ n \in 0..Len(Line(line[t]))
      BY <3>2, LineIsBytes
    <3>4. buffer \in Seq(Byte) /\ Prefix(Line(line[t]), n) \in Seq(Byte)
      BY <3>3, Cut, Streams
    <3> QED BY <3>1, <3>4, ConcatProperties
  <2> QED BY <2>1, <2>2
<1>4. \E p \in Seq(Byte) : disk' = disk \o p
  BY <1>3, Streams, HoldsOrDropsGrows
<1> QED BY <1>1, <1>2, <1>4, GrowsSurvival

\* What is in the file outlives the process.
LEMMA GoneSurvival ==
    ASSUME IInv, Survival, Close \/ Crash
    PROVE  Survival'
<1>1. kept' = kept /\ \A t \in Threads : pc'[t] # "written"
  BY DEF Close, Crash, Gone
<1>2. CASE Close
  <2>1. PICK n \in 0..Len(buffer) : disk' = disk \o Prefix(buffer, n)
    BY <1>2 DEF Close
  <2>2. Prefix(buffer, n) \in Seq(Byte)
    BY Streams, Cut
  <2> QED BY <1>1, <2>1, <2>2, GrowsSurvival
<1>3. CASE Crash
  <2>1. <<>> \in Seq(Byte) /\ disk' = disk \o <<>>
    BY <1>3, Streams, EmptySeq, ConcatEmptySeq DEF Crash
  <2> QED BY <1>1, <2>1, GrowsSurvival
<1> QED BY <1>2, <1>3

\* An object that does not append gives up the events of those before it.
LEMMA OpenSurvival ==
    ASSUME IInv, Survival, Open
    PROVE  Survival'
<1>1. \A t \in Threads : pc[t] = "idle" /\ pc'[t] = "idle"
  BY DEF Open, IInv, Recording
<1>2. CASE options'.append
  <2>1. <<>> \in Seq(Byte) /\ disk' = disk \o <<>> /\ kept' = kept
    BY <1>2, Streams, EmptySeq, ConcatEmptySeq DEF Open
  <2> QED BY <1>1, <2>1, GrowsSurvival
<1>3. CASE ~options'.append
  <2>1. kept' = <<>> /\ DOMAIN kept' = {}
    BY <1>3 DEF Open
  <2>2. [k \in DOMAIN kept' |-> 0] \in [DOMAIN kept' -> Nat]
    OBVIOUS
  <2>3. (\E start : Places(start, Len(disk)))'
    BY <2>1, <2>2 DEF Places
  <2> QED BY <1>1, <2>3 DEF Survival
<1> QED BY <1>2, <1>3

LEMMA NextSurvival ==
    ASSUME IInv, Survival, [Next]_vars
    PROVE  Survival'
<1>1. CASE UNCHANGED vars
  BY <1>1, UntouchedSurvival DEF vars
<1>2. ASSUME NEW t \in Threads, Lock(t) PROVE Survival'
  BY <1>2, UntouchedSurvival DEF Lock, IInv, TypeOK
<1>3. ASSUME NEW t \in Threads, Refuse(t) PROVE Survival'
  <2>1. mutex = t /\ Leave(t, "refused")
    BY <1>3, Holder DEF Refuse
  <2>2. \A u \in Threads : pc'[u] # "written"
    BY <2>1, LeaveFrees
  <2> QED BY <1>3, <2>2, UntouchedSurvival DEF Refuse
<1>4. ASSUME NEW t \in Threads, NEW size \in Sizes, Dump(t, size) PROVE Survival'
  BY <1>4, UntouchedSurvival DEF Dump, IInv, TypeOK
<1>5. ASSUME NEW t \in Threads, Record(t) PROVE Survival'
  BY <1>2, <1>3, <1>5, WriteSurvival, FailureSurvival, AcceptSurvival DEF Record
<1> QED BY <1>1, <1>4, <1>5, OpenSurvival, GoneSurvival DEF Next

\* Events that an object with flush_each_event accepted are in the file, whole
\* and in order, through any failures, crashes and restarts that append.
THEOREM Durability == Spec => []FlushedEventsSurvive
<1>1. Init => Survival
  <2> SUFFICES ASSUME Init PROVE Survival
    OBVIOUS
  <2>1. DOMAIN kept = {} /\ \A t \in Threads : pc[t] = "idle"
    BY DEF Init
  <2>2. [k \in DOMAIN kept |-> 0] \in [DOMAIN kept -> Nat]
    OBVIOUS
  <2> QED BY <2>1, <2>2 DEF Survival, Places
<1>2. IInv /\ Survival /\ [Next]_vars => Survival'
  BY NextSurvival
<1>3. ASSUME IInv, Survival PROVE FlushedEventsSurvive
  <2>1. PICK start : Places(start, Len(disk))
    BY <1>3 DEF Survival
  <2>2. disk \in Seq(Byte) /\ Len(disk) \in Nat /\ DOMAIN disk = 1..Len(disk)
    BY <1>3, Streams, LenProperties
  <2>3. ASSUME NEW k \in DOMAIN kept
        PROVE  /\ start[k] \in DOMAIN disk
               /\ start[k] + kept[k].size - 1 <= Len(disk)
               /\ SubSeq(disk, start[k], start[k] + kept[k].size - 1) = Line(kept[k])
    <3>1. PICK e, a : e = kept[k] /\ a = start[k]
      OBVIOUS
    <3>2. e \in Lines /\ e.size \in Nat \ {0} /\ Whole(disk, a, e)
      BY <1>3, <2>1, <3>1, KeptEvents DEF Places
    <3>3. a \in Nat \ {0} /\ a + e.size - 1 <= Len(disk)
      BY <3>2 DEF Whole
    <3>4. \A i \in a..(a + e.size - 1) : disk[i] \in Byte
      BY <2>2, <3>2, <3>3, ElementOfSeq
    <3>5. a \in Int /\ a + e.size - 1 \in Int /\ (a + e.size - 1) - a + 1 = e.size
          /\ a <= a + e.size - 1
      BY <3>2, <3>3
    <3>6. PICK part : part = SubSeq(disk, a, a + e.size - 1)
      OBVIOUS
    <3>7. /\ part \in Seq(Byte) /\ Len(part) = e.size
          /\ \A i \in 1..e.size : part[i] = disk[a + i - 1]
      BY <3>4, <3>5, <3>6, SubSeqProperties
    <3>8. Line(e) \in Seq(Byte) /\ Len(Line(e)) = e.size
      BY <3>2, LineIsBytes
    <3>9. \A i \in 1..e.size : part[i] = Line(e)[i]
      BY <3>2, <3>7 DEF Whole
    <3>10. part = Line(e)
      BY <3>7, <3>8, <3>9, SeqEqual
    <3> QED BY <2>2, <3>1, <3>2, <3>3, <3>6, <3>10, SMTT(30)
  <2>4. start \in [DOMAIN kept -> DOMAIN disk]
    BY <2>1, <2>3 DEF Places
  <2>5. \A j, k \in DOMAIN kept : j < k => start[j] < start[k]
    BY <2>1 DEF Places
  <2> QED BY <2>3, <2>4, <2>5 DEF FlushedEventsSurvive
<1> QED BY <1>1, <1>2, <1>3, Inductive, PTL DEF Spec
=============================================================================
