--------------------------- MODULE VsValuesProofs ---------------------------
(***************************************************************************)
(* Proofs about set and get of values: for arrays of every depth, and any      *)
(* range of indices, the loops stay inside the array and get collects what the *)
(* path names.                                                              *)
(***************************************************************************)
EXTENDS VsValues, SequenceTheorems, TLAPS

\* What get has collected is the first part of what the path names, and the index is
\* at the next element of it.
InPlace ==
  index = IF Len(ans) = Width(path) THEN Stop ELSE At(path, Len(ans) + 1)

Collected ==
  pc = "get" =>
    /\ IsArray /\ ~Single(path) /\ (path # <<>> => InRange(path))
    /\ Len(ans) <= Width(path) /\ InPlace
    /\ Supported => \A k \in 1 .. Len(ans) : ans[k] = mem[At(path, k)]

Unanswered == pc # "idle" => reply.type = "none"

IInv == TypeOK /\ Unanswered /\ Collected /\ GetIsSlice

-----------------------------------------------------------------------------
(* Paths, items and indices.                                                *)

LEMMA Numbers ==
  /\ Depth \in Nat /\ Depth > 0 /\ SizeTop \in Nat /\ Depth < SizeTop
  /\ MaxHalves \in Nat /\ MaxHalves >= 2 /\ MaxIndex \in Nat /\ NaN \notin Int
  BY ValuesAssumption

LEMMA Sides ==
  ASSUME NEW p \in Paths, p # <<>>
  PROVE  Left(p) \in Nat /\ Right(p) \in Nat /\ (Len(p) = 1 \/ Len(p) = 2)
<1>1. CASE p \in {<<i>> : i \in 0 .. MaxIndex}
  BY <1>1, Numbers DEF Left, Right
<1>2. CASE p \in {<<l, r>> : l, r \in 0 .. MaxIndex}
  BY <1>2, Numbers DEF Left, Right
<1> QED
  BY <1>1, <1>2 DEF Paths

LEMMA WholeItems ==
  Whole \subseteq Items /\ 0 \in Whole /\ 2 \in Whole /\ 0 \in Items /\ 2 \in Items
  BY Numbers DEF Whole, Items

Held == IF object.format = "real" THEN Items ELSE Whole

\* What is stored of an item is of the type of the object.
LEMMA CastHeld ==
  ASSUME NEW x \in Items
  PROVE  Cast(x) \subseteq Held
<1>1. CASE object.format = "real"
  BY <1>1 DEF Cast, Held
<1>2. CASE object.format # "real" /\ x = NaN
  BY <1>2 DEF Cast, Held
<1>3. CASE object.format # "real" /\ x # NaN
  <2>1. x \in 0 .. MaxHalves
    BY <1>3 DEF Items
  <2>2. x - (x % 2) \in 0 .. MaxHalves /\ (x - (x % 2)) % 2 = 0
    BY <2>1, Numbers
  <2>3. Cast(x) = {x - (x % 2)}
    BY <1>3 DEF Cast
  <2> QED
    BY <1>3, <2>2, <2>3 DEF Held, Whole
<1> QED
  BY <1>1, <1>2, <1>3

\* The number of a value is an item.
LEMMA NumberItem ==
  ASSUME NEW v \in Values
  PROVE  GetNumberValue(v) \in Items /\ v.items \in Seq(Items) /\ v.list \in BOOLEAN
<1>1. v \in [list : BOOLEAN, items : Seq(Items)] /\ (~v.list => Len(v.items) <= 1)
  BY ValuesAssumption
<1>2. v.items \in Seq(Items) /\ v.list \in BOOLEAN
  BY <1>1
<1>3. CASE v.list \/ v = NoValue
  <2>1. NaN \in Items
    BY DEF Items
  <2> QED
    BY <1>2, <1>3, <2>1 DEF GetNumberValue
<1>4. CASE ~(v.list \/ v = NoValue)
  <2>1. v.items # <<>>
    <3>1. v = [list |-> v.list, items |-> v.items]
      BY <1>1
    <3> QED
      BY <1>2, <1>4, <3>1 DEF NoValue
  <2>2. 1 \in 1 .. Len(v.items)
    BY <1>2, <2>1, EmptySeq
  <2>3. v.items[1] \in Items
    BY <1>2, <2>2
  <2> QED
    BY <1>2, <1>4, <2>3 DEF GetNumberValue
<1> QED
  BY <1>3, <1>4

LEMMA IndexTypes ==
  /\ \A i \in 0 .. SizeTop, down \in BOOLEAN : Next_size_t(i, down) \in 0 .. SizeTop
  /\ 0 \in 0 .. SizeTop /\ Indices \subseteq 0 .. SizeTop /\ 0 \in Elements
  /\ (IsArray => Elements = Indices)
  BY Numbers DEF Next_size_t, Indices, Elements

-----------------------------------------------------------------------------
(* The types are kept by every step.                                        *)

Values_ == [list : BOOLEAN, items : Seq(Items)]

LEMMA Types ==
  TypeOK <=>
    /\ object \in VpiObjects \cup RegisteredVariables
    /\ mem \in [Elements -> Held] /\ before \in [Elements -> Items]
    /\ pc \in {"idle", "set", "get"} /\ path \in Paths
    /\ index \in 0 .. SizeTop /\ rest \in Seq(Items) /\ ans \in Seq(Items)
    /\ value \in Values_
    /\ reply \in [type : {"none", "ack", "error", "result"}, value : Values_]
  BY Zenon DEF TypeOK, Held, Values_

LEMMA TypesNext ==
  ASSUME object' = object
  PROVE  TypeOK' <=>
    /\ object \in VpiObjects \cup RegisteredVariables
    /\ mem' \in [Elements -> Held] /\ before' \in [Elements -> Items]
    /\ pc' \in {"idle", "set", "get"} /\ path' \in Paths
    /\ index' \in 0 .. SizeTop /\ rest' \in Seq(Items) /\ ans' \in Seq(Items)
    /\ value' \in Values_
    /\ reply' \in [type : {"none", "ack", "error", "result"}, value : Values_]
  BY Zenon DEF TypeOK, Held, Values_, Elements, IsArray

LEMMA NoValues ==
  /\ NoValue \in Values_ /\ <<>> \in Seq(Items)
  /\ \A x \in Items : Number(x) \in Values_
  /\ \A s \in Seq(Items) : List(s) \in Values_
  /\ NoReply \in [type : {"none", "ack", "error", "result"}, value : Values_]
<1>1. <<>> \in Seq(Items)
  BY EmptySeq
<1>2. \A x \in Items : <<x>> \in Seq(Items)
  OBVIOUS
<1> QED
  BY <1>1, <1>2 DEF NoValue, Number, List, NoReply, Values_

LEMMA Answered ==
  ASSUME NEW type \in {"ack", "error", "result"}, NEW v \in Values_, Answer(type, v)
  PROVE  /\ pc' = "idle" /\ reply'.type = type /\ reply'.value = v
         /\ reply' \in [type : {"none", "ack", "error", "result"}, value : Values_]
  BY DEF Answer

LEMMA HeldItems ==
  ASSUME TypeOK
  PROVE  /\ Held \subseteq Items /\ mem \in [Elements -> Held]
         /\ mem \in [Elements -> Items]
<1>1. Held \subseteq Items
  BY WholeItems DEF Held
<1>2. mem \in [Elements -> Held]
  BY Types
<1> QED
  BY <1>1, <1>2

LEMMA GetItem ==
  ASSUME TypeOK, NEW i
  PROVE  Get(i) \in Items
<1>1. CASE Supported /\ i \in Elements
  BY <1>1, HeldItems DEF Get
<1>2. CASE ~(Supported /\ i \in Elements)
  BY <1>2, WholeItems DEF Get
<1> QED
  BY <1>1, <1>2

LEMMA Updated ==
  ASSUME TypeOK, NEW i, NEW x \in Held
  PROVE  [mem EXCEPT ![i] = x] \in [Elements -> Held]
  BY HeldItems

LEMMA SetToHeld ==
  ASSUME TypeOK, NEW p, NEW v \in Values
  PROVE  SetTo(p, v) \subseteq Held
<1>1. CASE object.shape = "event"
  BY <1>1, WholeItems DEF SetTo, Held
<1>2. CASE object.shape # "event" /\ object.shape = "param"
  <2>1. mem[0] \in Held
    BY HeldItems, IndexTypes
  <2> QED
    BY <1>2, <2>1 DEF SetTo
<1>3. CASE object.shape # "event" /\ object.shape # "param"
  <2>1. (IF ~IsArray /\ v = NoValue THEN 0 ELSE GetNumberValue(v)) \in Items
    BY NumberItem, WholeItems
  <2>2. SetTo(p, v) = Cast(IF ~IsArray /\ v = NoValue THEN 0 ELSE GetNumberValue(v))
    BY <1>3 DEF SetTo
  <2> QED
    BY <2>1, <2>2, CastHeld
<1> QED
  BY <1>1, <1>2, <1>3

\* The loops begin inside the array.
LEMMA FirstIndex ==
  ASSUME NEW p \in Paths, p # <<>> => InRange(p)
  PROVE  First(p) \in 0 .. SizeTop
  BY Sides, Numbers DEF First, InRange

LEMMA SetTypes ==
  ASSUME TypeOK, NEW p \in Paths, NEW v \in Values, set(p, v)
  PROVE  TypeOK'
<1>1. /\ path' = p /\ value' = v /\ before' = mem /\ object' = object
      /\ \/ (~SetAccepted(p, v) /\ Refuse /\ UNCHANGED <<mem, loop>>)
         \/ (SetAccepted(p, v) /\ Single(p)
              /\ (\E x \in SetTo(p, v) : mem' = [mem EXCEPT ![One(p)] = x])
              /\ Answer("ack", NoValue) /\ UNCHANGED loop)
         \/ (SetAccepted(p, v) /\ ~Single(p)
              /\ pc' = "set" /\ index' = First(p) /\ ans' = <<>>
              /\ rest' = (IF v.list THEN v.items ELSE <<>>)
              /\ reply' = NoReply /\ UNCHANGED mem)
  BY DEF set
<1>2. value' \in Values_ /\ before' \in [Elements -> Items]
  BY <1>1, ValuesAssumption, HeldItems DEF Values_
<1>3. CASE ~SetAccepted(p, v) /\ Refuse /\ UNCHANGED <<mem, loop>>
  <2>1. pc' = "idle" /\ reply' \in [type : {"none", "ack", "error", "result"}, value : Values_]
    BY <1>3, NoValues, Answered DEF Refuse
  <2>2. mem' = mem /\ index' = index /\ rest' = rest /\ ans' = ans
    BY <1>3 DEF loop
  <2>3. pc' \in {"idle", "set", "get"}
    BY <2>1
  <2> QED
    BY <1>1, <1>2, <2>1, <2>2, <2>3, Types, TypesNext, Zenon
<1>4. CASE SetAccepted(p, v) /\ Single(p)
             /\ (\E x \in SetTo(p, v) : mem' = [mem EXCEPT ![One(p)] = x])
             /\ Answer("ack", NoValue) /\ UNCHANGED loop
  <2>1. pc' = "idle" /\ reply' \in [type : {"none", "ack", "error", "result"}, value : Values_]
    BY <1>4, NoValues, Answered
  <2>2. index' = index /\ rest' = rest /\ ans' = ans
    BY <1>4 DEF loop
  <2>3. mem' \in [Elements -> Held]
    <3>1. PICK x \in SetTo(p, v) : mem' = [mem EXCEPT ![One(p)] = x]
      BY <1>4
    <3>2. x \in Held
      BY SetToHeld
    <3> QED
      BY <3>1, <3>2, Updated
  <2>4. pc' \in {"idle", "set", "get"}
    BY <2>1
  <2> QED
    BY <1>1, <1>2, <2>1, <2>2, <2>3, <2>4, Types, TypesNext, Zenon
<1>5. CASE SetAccepted(p, v) /\ ~Single(p)
             /\ pc' = "set" /\ index' = First(p) /\ ans' = <<>>
             /\ rest' = (IF v.list THEN v.items ELSE <<>>)
             /\ reply' = NoReply /\ UNCHANGED mem
  <2>1. p # <<>> => InRange(p)
    <3>1. IsArray
      BY <1>5, Zenon DEF Single
    <3>2. SetManyAccepted(p, v)
      BY <1>5, <3>1, Zenon DEF SetAccepted
    <3> QED
      BY <3>2, Zenon DEF SetManyAccepted
  <2>2. index' \in 0 .. SizeTop
    BY <1>5, <2>1, FirstIndex
  <2>3. ans' \in Seq(Items) /\ rest' \in Seq(Items)
    BY <1>5, NoValues, NumberItem
  <2>4. pc' \in {"idle", "set", "get"}
    BY <1>5
  <2> QED
    BY <1>1, <1>2, <1>5, <2>2, <2>3, <2>4, NoValues, Types, TypesNext, Zenon
<1> QED
  BY <1>1, <1>3, <1>4, <1>5, Zenon

LEMMA GetTypes ==
  ASSUME TypeOK, NEW p \in Paths, get(p)
  PROVE  TypeOK'
<1>1. /\ path' = p /\ value' = NoValue /\ before' = mem /\ object' = object /\ mem' = mem
      /\ \/ (~GetAccepted(p) /\ Refuse /\ UNCHANGED loop)
         \/ (GetAccepted(p) /\ Single(p) /\ Answer("result", Number(Get(One(p))))
              /\ UNCHANGED loop)
         \/ (GetAccepted(p) /\ ~Single(p)
              /\ pc' = "get" /\ index' = First(p) /\ rest' = <<>> /\ ans' = <<>>
              /\ reply' = NoReply)
  BY DEF get
<1>2. value' \in Values_ /\ before' \in [Elements -> Items]
  BY <1>1, NoValues, HeldItems
<1>3. ASSUME pc' = "idle", UNCHANGED loop,
             reply' \in [type : {"none", "ack", "error", "result"}, value : Values_]
      PROVE  TypeOK'
  <2>1. index' = index /\ rest' = rest /\ ans' = ans
    BY <1>3 DEF loop
  <2>2. pc' \in {"idle", "set", "get"}
    BY <1>3
  <2> QED
    BY <1>1, <1>2, <1>3, <2>1, <2>2, Types, TypesNext, Zenon
<1>4. CASE ~GetAccepted(p) /\ Refuse /\ UNCHANGED loop
  BY <1>3, <1>4, NoValues, Answered DEF Refuse
<1>5. CASE GetAccepted(p) /\ Single(p) /\ Answer("result", Number(Get(One(p))))
             /\ UNCHANGED loop
  <2>1. Number(Get(One(p))) \in Values_
    BY GetItem, NoValues
  <2> QED
    BY <1>3, <1>5, <2>1, Answered
<1>6. CASE GetAccepted(p) /\ ~Single(p)
             /\ pc' = "get" /\ index' = First(p) /\ rest' = <<>> /\ ans' = <<>>
             /\ reply' = NoReply
  <2>1. p # <<>> => InRange(p)
    BY <1>6 DEF GetAccepted, Single
  <2>2. index' \in 0 .. SizeTop
    BY <1>6, <2>1, FirstIndex
  <2>3. pc' \in {"idle", "set", "get"}
    BY <1>6
  <2> QED
    BY <1>1, <1>2, <1>6, <2>2, <2>3, NoValues, Types, TypesNext, Zenon
<1> QED
  BY <1>1, <1>4, <1>5, <1>6, Zenon

LEMMA StepType ==
  ASSUME TypeOK, Step
  PROVE  index' \in 0 .. SizeTop
<1>1. index \in 0 .. SizeTop
  BY Types
<1>2. (path # <<>> /\ Descends(path)) \in BOOLEAN
  BY DEF Descends
<1> QED
  BY <1>1, <1>2, IndexTypes, Zenon DEF Step

LEMMA LoopTypes ==
  ASSUME TypeOK, Loop
  PROVE  TypeOK'
<1>1. UNCHANGED <<object, path, value, before>>
  BY DEF Loop, SetElement, SetDone, GetElement, GetDone, request
<1>2. /\ pc \in {"idle", "set", "get"} /\ index \in 0 .. SizeTop
      /\ rest \in Seq(Items) /\ ans \in Seq(Items)
  BY Types
<1>3. CASE SetElement
  <2>1. rest # <<>> /\ ans' = ans
    BY <1>3 DEF SetElement
  <2>2. Head(rest) \in Items /\ Tail(rest) \in Seq(Items)
    BY <1>2, <2>1
  <2>3. CASE /\ \E x \in Cast(Head(rest)) : mem' = [mem EXCEPT ![index] = x]
             /\ Step /\ rest' = Tail(rest)
             /\ UNCHANGED <<pc, reply>>
    <3>1. mem' \in [Elements -> Held]
      <4>1. PICK x \in Cast(Head(rest)) : mem' = [mem EXCEPT ![index] = x]
        BY <2>3
      <4>2. x \in Held
        BY <2>2, CastHeld
      <4> QED
        BY <4>1, <4>2, Updated
    <3>2. index' \in 0 .. SizeTop
      BY <2>3, StepType
    <3> QED
      BY <1>1, <2>1, <2>2, <2>3, <3>1, <3>2, Types, TypesNext, Zenon
  <2>4. CASE Refuse /\ UNCHANGED <<mem, index, rest>>
    <3>1. pc' = "idle"
          /\ reply' \in [type : {"none", "ack", "error", "result"}, value : Values_]
      BY <2>4, NoValues, Answered DEF Refuse
    <3>2. pc' \in {"idle", "set", "get"}
      BY <3>1
    <3> QED
      BY <1>1, <2>1, <2>4, <3>1, <3>2, Types, TypesNext, Zenon
  <2>5. CASE Step /\ rest' = Tail(rest) /\ UNCHANGED <<mem, pc, reply>>
    <3>1. index' \in 0 .. SizeTop
      BY <2>5, StepType
    <3> QED
      BY <1>1, <2>1, <2>2, <2>5, <3>1, Types, TypesNext, Zenon
  <2> QED
    BY <1>3, <2>3, <2>4, <2>5, Zenon DEF SetElement
<1>4. CASE SetDone \/ GetDone
  <2>1. UNCHANGED <<mem, index, rest, ans>>
    BY <1>4 DEF SetDone, GetDone, loop
  <2>2. PICK type \in {"ack", "result"}, v \in Values_ : Answer(type, v)
    BY <1>2, <1>4, NoValues DEF SetDone, GetDone
  <2>3. pc' = "idle" /\ reply' \in [type : {"none", "ack", "error", "result"}, value : Values_]
    BY <2>2, Answered
  <2>4. pc' \in {"idle", "set", "get"}
    BY <2>3
  <2> QED
    BY <1>1, <2>1, <2>3, <2>4, Types, TypesNext, Zenon
<1>5. CASE GetElement
  <2>1. /\ ans' = Append(ans, Get(index)) /\ Step /\ UNCHANGED <<mem, pc, rest, reply>>
    BY <1>5 DEF GetElement
  <2>2. ans' \in Seq(Items)
    <3>1. Get(index) \in Items
      BY GetItem
    <3> QED
      BY <1>2, <2>1, <3>1, AppendProperties
  <2>3. index' \in 0 .. SizeTop
    BY <2>1, StepType
  <2> QED
    BY <1>1, <2>1, <2>2, <2>3, Types, TypesNext, Zenon
<1> QED
  BY <1>3, <1>4, <1>5 DEF Loop

LEMMA ReturnTypes ==
  ASSUME TypeOK, Return
  PROVE  TypeOK'
<1>1. /\ path' = <<>> /\ value' = NoValue /\ before' = mem' /\ object' = object
      /\ index' = 0 /\ rest' = <<>> /\ ans' = <<>> /\ reply' = NoReply /\ pc' = pc
      /\ mem' = mem \/ \E i \in Elements, x \in Whole : mem' = [mem EXCEPT ![i] = x]
  BY DEF Return
<1>2. Whole \subseteq Held
  BY WholeItems DEF Held
<1>3. mem' \in [Elements -> Held]
  BY <1>1, <1>2, HeldItems, Updated, Zenon
<1>4. before' \in [Elements -> Items]
  <2>1. Held \subseteq Items
    BY HeldItems
  <2> QED
    BY <1>1, <1>3, <2>1
<1>5. path' \in Paths
  BY <1>1 DEF Paths
<1> QED
  BY <1>1, <1>3, <1>4, <1>5, NoValues, IndexTypes, Types, TypesNext, Zenon

LEMMA NextTypes ==
  ASSUME TypeOK, [Next]_vars
  PROVE  TypeOK'
<1>1. CASE Next
  BY <1>1, SetTypes, GetTypes, LoopTypes, ReturnTypes, Zenon DEF Next
<1>2. CASE UNCHANGED vars
  <2>1. UNCHANGED <<object, mem, pc, path, value, before, index, rest, ans, reply>>
    BY <1>2 DEF vars, request, loop
  <2> QED
    BY <2>1, Types, TypesNext, Zenon
<1> QED
  BY <1>1, <1>2

LEMMA InitTypes ==
  Init => TypeOK
<1> SUFFICES ASSUME Init PROVE TypeOK
  OBVIOUS
<1>1. mem \in [Elements -> Held] /\ before \in [Elements -> Items]
  <2>1. mem \in [Elements -> Whole] /\ before = mem
    BY DEF Init
  <2> QED
    BY <2>1, WholeItems DEF Held
<1>2. path \in Paths /\ pc \in {"idle", "set", "get"}
  BY DEF Init, Paths
<1> QED
  BY <1>1, <1>2, NoValues, IndexTypes, Types, Zenon DEF Init

\* TypeOK for arrays of every depth: what an object holds is of its type, whatever is
\* set.
THEOREM TypeCorrect == Spec => []TypeOK
  BY InitTypes, NextTypes, PTL DEF Spec

-----------------------------------------------------------------------------
(* The walk of an index over a range.                                       *)

Wanted(p) == IsArray /\ (p # <<>> => InRange(p))

LEMMA Walk ==
  ASSUME NEW p \in Paths, Wanted(p)
  PROVE  /\ Width(p) \in Nat /\ Width(p) >= 1 /\ First(p) = At(p, 1)
         /\ \A k \in 1 .. Width(p) : At(p, k) \in Indices
<1>1. CASE p = <<>>
  BY <1>1, Numbers DEF Wanted, Width, At, First, Indices
<1>2. CASE p # <<>>
  <2>1. /\ Left(p) \in Nat /\ Right(p) \in Nat /\ Left(p) < Depth /\ Right(p) < Depth
        /\ IsArray
    BY <1>2, Sides DEF Wanted, InRange
  <2>2. CASE Descends(p)
    BY <1>2, <2>1, <2>2, Numbers DEF Width, At, First, Indices, Descends
  <2>3. CASE ~Descends(p)
    BY <1>2, <2>1, <2>3, Numbers DEF Width, At, First, Indices, Descends
  <2> QED
    BY <2>2, <2>3
<1> QED
  BY <1>1, <1>2

\* One step of the index, and the test of the loop of get.
LEMMA Paces ==
  ASSUME path \in Paths, Wanted(path)
  PROVE  \A k \in 1 .. Width(path) :
           /\ Next_size_t(At(path, k), path # <<>> /\ Descends(path)) =
                IF k = Width(path) THEN Stop ELSE At(path, k + 1)
           /\ index = At(path, k) => More
<1>1. CASE path = <<>>
  <2>1. /\ Width(path) = Depth /\ Stop = Depth
        /\ \A k \in 1 .. Depth : At(path, k) = k - 1 /\ At(path, k + 1) = k
    BY <1>1, Numbers DEF Wanted, Width, At, Stop
  <2>2. (path # <<>> /\ Descends(path)) = FALSE
    BY <1>1
  <2>3. \A k \in 1 .. Depth : Next_size_t(k - 1, FALSE) = k
    BY Numbers DEF Next_size_t
  <2>4. ASSUME NEW k \in 1 .. Depth PROVE index = At(path, k) => More
    BY <1>1, <2>1, Numbers DEF More
  <2> QED
    BY <2>1, <2>2, <2>3, <2>4
<1>2. CASE path # <<>>
  <2>1. /\ Left(path) \in Nat /\ Right(path) \in Nat /\ Left(path) < Depth
        /\ Right(path) < Depth /\ IsArray
    BY <1>2, Sides DEF Wanted, InRange
  <2>2. CASE Descends(path)
    <3>1. /\ Right(path) > Left(path) /\ Width(path) = Right(path) - Left(path) + 1
          /\ Stop = Next_size_t(Left(path), TRUE)
          /\ \A k \in Nat : At(path, k) = Right(path) - k + 1
      BY <1>2, <2>1, <2>2 DEF Width, Stop, At, Descends
    <3>2. ASSUME NEW k \in 1 .. Width(path)
          PROVE  Next_size_t(At(path, k), TRUE) =
                   IF k = Width(path) THEN Stop ELSE At(path, k + 1)
      BY <2>1, <3>1 DEF Next_size_t
    <3>3. ASSUME NEW k \in 1 .. Width(path), index = At(path, k) PROVE More
      <4>1. index >= Left(path) /\ index <= Right(path) /\ index \in Int
        BY <2>1, <3>1, <3>3
      <4>2. Stop = IF Left(path) = 0 THEN SizeTop ELSE Left(path) - 1
        BY <3>1 DEF Next_size_t
      <4>3. index # Stop
        BY <2>1, <4>1, <4>2, Numbers
      <4> QED
        BY <1>2, <4>3 DEF More
    <3>4. (path # <<>> /\ Descends(path)) = TRUE
      BY <1>2, <2>2 DEF Descends
    <3> QED
      BY <3>2, <3>3, <3>4
  <2>3. CASE ~Descends(path)
    <3>1. /\ Right(path) <= Left(path) /\ Width(path) = Left(path) - Right(path) + 1
          /\ Stop = Left(path) + 1
          /\ \A k \in Nat : At(path, k) = Right(path) + k - 1
      BY <1>2, <2>1, <2>3, Numbers DEF Width, Stop, At, Descends, Next_size_t
    <3>2. ASSUME NEW k \in 1 .. Width(path)
          PROVE  Next_size_t(At(path, k), FALSE) =
                   IF k = Width(path) THEN Stop ELSE At(path, k + 1)
      BY <2>1, <3>1, Numbers DEF Next_size_t
    <3>3. ASSUME NEW k \in 1 .. Width(path), index = At(path, k) PROVE More
      BY <1>2, <2>1, <3>1, <3>3, Numbers DEF More
    <3>4. (path # <<>> /\ Descends(path)) = FALSE
      BY <2>3 DEF Descends
    <3> QED
      BY <3>2, <3>3, <3>4
  <2> QED
    BY <2>2, <2>3
<1> QED
  BY <1>1, <1>2

LEMMA Stopped ==
  ASSUME index = Stop
  PROVE  ~More
  BY Numbers DEF More, Stop

\* Inside the loop, the index is at the next element or at the end.
LEMMA InLoop ==
  ASSUME TypeOK, Collected, pc = "get"
  PROVE  /\ Wanted(path) /\ ~Single(path) /\ Len(ans) \in Nat /\ Width(path) \in Nat
         /\ Len(ans) <= Width(path)
         /\ More => Len(ans) + 1 \in 1 .. Width(path) /\ index = At(path, Len(ans) + 1)
                     /\ index \in Indices
         /\ ~More => Len(ans) = Width(path)
<1>1. /\ Wanted(path) /\ ~Single(path) /\ Len(ans) <= Width(path) /\ InPlace
  BY DEF Collected, Wanted
<1>2. path \in Paths /\ Len(ans) \in Nat
  BY Types
<1>3. Width(path) \in Nat /\ \A k \in 1 .. Width(path) : At(path, k) \in Indices
  BY <1>1, <1>2, Walk
<1>4. CASE Len(ans) = Width(path)
  BY <1>1, <1>2, <1>3, <1>4, Stopped DEF InPlace
<1>5. CASE Len(ans) # Width(path)
  <2>1. Len(ans) + 1 \in 1 .. Width(path) /\ index = At(path, Len(ans) + 1)
    BY <1>1, <1>2, <1>3, <1>5 DEF InPlace
  <2>2. More
    BY <1>1, <1>2, <2>1, Paces
  <2> QED
    BY <1>1, <1>2, <1>3, <2>1, <2>2
<1> QED
  BY <1>4, <1>5

-----------------------------------------------------------------------------
(* What get collects, and what it answers.                                  *)

Slices == Unanswered /\ Collected /\ GetIsSlice

LEMMA Frame ==
  ASSUME object' = object
  PROVE  /\ IsArray' = IsArray /\ Supported' = Supported
         /\ Single(path)' = Single(path') /\ Width(path)' = Width(path')
         /\ InRange(path)' = InRange(path')
  BY Zenon DEF IsArray, Supported, Single, Width, InRange, Left, Right, Descends

\* Steps that end idle and answer no get.
LEMMA NoResult ==
  ASSUME pc' = "idle", reply'.type # "result"
  PROVE  Slices'
  BY DEF Slices, Unanswered, Collected, GetIsSlice

\* Steps into and inside the loop of set.
LEMMA Setting ==
  ASSUME pc' = "set", reply'.type = "none"
  PROVE  Slices'
  BY DEF Slices, Unanswered, Collected, GetIsSlice

LEMMA SetSlices ==
  ASSUME TypeOK, Slices, NEW p \in Paths, NEW v \in Values, set(p, v)
  PROVE  Slices'
<1>1. \/ (pc' = "idle" /\ reply'.type \in {"ack", "error"})
      \/ (pc' = "set" /\ reply'.type = "none")
  BY DEF set, Refuse, Answer, NoReply
<1> QED
  BY <1>1, NoResult, Setting

LEMMA GetSlices ==
  ASSUME TypeOK, Slices, NEW p \in Paths, get(p)
  PROVE  Slices'
<1>1. /\ path' = p /\ object' = object /\ mem' = mem
      /\ \/ Refuse
         \/ (GetAccepted(p) /\ Single(p) /\ Answer("result", Number(Get(One(p)))))
         \/ (GetAccepted(p) /\ ~Single(p) /\ pc' = "get" /\ index' = First(p)
              /\ ans' = <<>> /\ reply' = NoReply)
  BY DEF get
<1>2. CASE Refuse
  <2>1. pc' = "idle" /\ reply'.type = "error"
    BY <1>2 DEF Refuse, Answer
  <2> QED
    BY <2>1, NoResult
<1>3. CASE GetAccepted(p) /\ Single(p) /\ Answer("result", Number(Get(One(p))))
  <2>1. pc' = "idle" /\ reply'.value = Number(Get(One(p)))
    BY <1>3 DEF Answer
  <2>2. One(p) = At(p, 1) /\ One(p) \in Elements
    <3>1. CASE IsArray
      <4>1. p # <<>> /\ Left(p) = Right(p)
        BY <1>3, <3>1, Zenon DEF Single
      <4>2. InRange(p)
        BY <1>3, <3>1, <4>1 DEF GetAccepted
      <4>3. One(p) = Left(p)
        BY <3>1 DEF One
      <4>4. Left(p) \in Nat /\ Left(p) < Depth
        BY <4>1, <4>2, Sides DEF InRange
      <4>5. At(p, 1) = Left(p)
        BY <4>1, <4>4 DEF At, Descends
      <4>6. Left(p) \in Indices
        BY <4>4, Numbers DEF Indices
      <4> QED
        BY <3>1, <4>3, <4>5, <4>6, IndexTypes
    <3>2. CASE ~IsArray
      <4>1. p = <<>>
        <5>1. object.api \in {"vpi", "verilator"}
          <6>1. object \in VpiObjects \cup RegisteredVariables
            BY Types
          <6> QED
            BY <6>1 DEF VpiObjects, RegisteredVariables, Object
        <5> QED
          BY <1>3, <3>2 DEF GetAccepted
      <4> QED
        BY <3>2, <4>1, IndexTypes DEF One, At
    <3> QED
      BY <3>1, <3>2
  <2>3. Supported => Get(One(p)) = mem[At(p, 1)]
    BY <2>2 DEF Get
  <2>4. GetIsSlice'
    <3>1. Single(path)' /\ Supported' = Supported
      <4>1. Single(path)' = Single(path') /\ Supported' = Supported /\ path' = p
        BY <1>1, Frame, Zenon
      <4> QED
        BY <1>3, <4>1, Zenon
    <3>2. Supported' => reply'.value = Number(mem'[At(path', 1)])
      BY <1>1, <2>1, <2>3, <3>1, Zenon
    <3> QED
      BY <3>1, <3>2, Zenon DEF GetIsSlice
  <2> QED
    BY <2>1, <2>4 DEF Slices, Unanswered, Collected
<1>4. CASE GetAccepted(p) /\ ~Single(p) /\ pc' = "get" /\ index' = First(p)
             /\ ans' = <<>> /\ reply' = NoReply
  <2>1. Wanted(p)
    <3>1. IsArray
      BY <1>4, Zenon DEF Single
    <3>2. p # <<>> => InRange(p)
      BY <1>4, <3>1, Zenon DEF GetAccepted
    <3> QED
      BY <3>1, <3>2 DEF Wanted
  <2>2. Width(p) \in Nat /\ Width(p) >= 1 /\ First(p) = At(p, 1)
    BY <2>1, Walk
  <2>3. Len(ans') = 0 /\ 0 # Width(p) /\ 0 + 1 = 1 /\ 0 <= Width(p)
    BY <1>4, <2>2
  <2>4. Width(path)' = Width(p) /\ Single(path)' = Single(p) /\ InRange(path)' = InRange(p)
        /\ IsArray' = IsArray
    BY <1>1, Frame, Zenon
  <2>5. InPlace'
    BY <1>1, <1>4, <2>2, <2>3, <2>4 DEF InPlace
  <2>6. \A k \in 1 .. Len(ans') : FALSE
    BY <2>3
  <2>7. Collected'
    BY <1>1, <1>4, <2>1, <2>3, <2>4, <2>5, <2>6, Zenon DEF Collected, Wanted
  <2>8. reply'.type = "none"
    BY <1>4 DEF NoReply
  <2> QED
    BY <2>7, <2>8 DEF Slices, Unanswered, GetIsSlice
<1> QED
  BY <1>1, <1>2, <1>3, <1>4, Zenon

LEMMA LoopSlices ==
  ASSUME TypeOK, Slices, Loop
  PROVE  Slices'
<1>1. Unanswered /\ Collected /\ GetIsSlice
  BY DEF Slices
<1>2. CASE SetElement
  <2>1. pc = "set" /\ reply.type = "none"
    BY <1>1, <1>2 DEF SetElement, Unanswered
  <2>2. \/ (pc' = "set" /\ reply'.type = "none")
        \/ (pc' = "idle" /\ reply'.type = "error")
    BY <1>2, <2>1 DEF SetElement, Refuse, Answer
  <2> QED
    BY <2>2, NoResult, Setting
<1>3. CASE SetDone
  <2>1. pc' = "idle" /\ reply'.type = "ack"
    BY <1>3 DEF SetDone, Answer
  <2> QED
    BY <2>1, NoResult
<1>4. CASE GetElement
  <2>1. /\ pc = "get" /\ More /\ ans' = Append(ans, Get(index)) /\ Step
        /\ UNCHANGED <<object, mem, pc, path, reply>>
    BY <1>4 DEF GetElement, request
  <2>2. /\ Wanted(path) /\ ~Single(path) /\ Len(ans) \in Nat /\ Width(path) \in Nat
        /\ Len(ans) + 1 \in 1 .. Width(path) /\ index = At(path, Len(ans) + 1)
        /\ index \in Indices
    BY <1>1, <2>1, InLoop
  <2>3. path \in Paths /\ ans \in Seq(Items)
    BY Types
  <2>4. Get(index) \in Items
    BY GetItem
  <2>5. /\ Len(ans') = Len(ans) + 1 /\ ans'[Len(ans) + 1] = Get(index)
        /\ \A k \in 1 .. Len(ans) : ans'[k] = ans[k]
    BY <2>1, <2>3, <2>4, AppendProperties
  <2>6. index' = IF Len(ans) + 1 = Width(path) THEN Stop ELSE At(path, (Len(ans) + 1) + 1)
    <3>1. index' = Next_size_t(At(path, Len(ans) + 1), path # <<>> /\ Descends(path))
      BY <2>1, <2>2 DEF Step
    <3> QED
      BY <2>2, <2>3, <3>1, Paces, Zenon
  <2>7. /\ Width(path)' = Width(path) /\ Single(path)' = Single(path)
        /\ InRange(path)' = InRange(path) /\ IsArray' = IsArray /\ Supported' = Supported
    BY <2>1, Frame, Zenon
  <2>8. Stop' = Stop
    BY <2>1, Zenon DEF Stop, Descends, Left, Right
  <2>9. InPlace'
    BY <2>1, <2>5, <2>6, <2>7, <2>8, Zenon DEF InPlace
  <2>10. Supported => \A k \in 1 .. Len(ans') : ans'[k] = mem[At(path, k)]
    <3> SUFFICES ASSUME Supported, NEW k \in 1 .. Len(ans')
                 PROVE  ans'[k] = mem[At(path, k)]
      OBVIOUS
    <3>1. CASE k = Len(ans) + 1
      <4>1. index \in Elements
        BY <2>2, IndexTypes DEF Wanted
      <4>2. Get(index) = mem[index]
        BY <4>1 DEF Get
      <4> QED
        BY <2>2, <2>5, <3>1, <4>2
    <3>2. CASE k # Len(ans) + 1
      <4>1. k \in 1 .. Len(ans)
        BY <2>2, <2>5, <3>2
      <4>2. ans[k] = mem[At(path, k)]
        BY <1>1, <2>1, <4>1, Zenon DEF Collected
      <4> QED
        BY <2>5, <4>1, <4>2
    <3> QED
      BY <3>1, <3>2
  <2>11. Len(ans') <= Width(path)
    BY <2>2, <2>5
  <2>12. Collected'
    BY <2>1, <2>2, <2>7, <2>9, <2>10, <2>11, Zenon DEF Collected, Wanted
  <2>13. reply'.type = "none"
    BY <1>1, <2>1 DEF Unanswered
  <2> QED
    BY <2>12, <2>13 DEF Slices, Unanswered, GetIsSlice
<1>5. CASE GetDone
  <2>1. /\ pc = "get" /\ ~More /\ pc' = "idle" /\ reply'.value = List(ans)
        /\ UNCHANGED <<object, mem, path>>
    BY <1>5 DEF GetDone, Answer, request
  <2>2. ~Single(path) /\ Len(ans) = Width(path)
    BY <1>1, <2>1, InLoop
  <2>3. Supported => \A k \in 1 .. Width(path) : ans[k] = mem[At(path, k)]
    BY <1>1, <2>1, <2>2, Zenon DEF Collected
  <2>4. /\ Width(path)' = Width(path) /\ ~Single(path)' /\ Supported' = Supported
    BY <2>1, <2>2, Frame, Zenon
  <2>5. reply'.value.list /\ reply'.value.items = ans
    BY <2>1 DEF List
  <2>6. GetIsSlice'
    BY <2>1, <2>2, <2>3, <2>4, <2>5, Zenon DEF GetIsSlice
  <2> QED
    BY <2>1, <2>6 DEF Slices, Unanswered, Collected
<1> QED
  BY <1>2, <1>3, <1>4, <1>5 DEF Loop

LEMMA NextSlices ==
  ASSUME TypeOK, Slices, [Next]_vars
  PROVE  Slices'
<1>1. CASE Return
  <2>1. reply'.type = "none" /\ pc' = "idle"
    <3>1. pc = "idle"
      BY <1>1 DEF Return, Slices, Unanswered
    <3> QED
      BY <1>1, <3>1 DEF Return, NoReply
  <2> QED
    BY <2>1, NoResult
<1>2. CASE UNCHANGED vars
  <2>1. UNCHANGED <<object, mem, pc, path, index, ans, reply>>
    BY <1>2 DEF vars, request, loop
  <2>2. /\ Width(path)' = Width(path) /\ Single(path)' = Single(path)
        /\ InRange(path)' = InRange(path) /\ IsArray' = IsArray /\ Supported' = Supported
        /\ Stop' = Stop
    BY <2>1, Frame, Zenon DEF Stop, Descends, Left, Right
  <2>3. Collected'
    BY <2>1, <2>2, Zenon DEF Slices, Collected, InPlace
  <2>4. GetIsSlice'
    BY <2>1, <2>2, Zenon DEF Slices, GetIsSlice
  <2> QED
    BY <2>1, <2>3, <2>4, Zenon DEF Slices, Unanswered
<1> QED
  BY <1>1, <1>2, SetSlices, GetSlices, LoopSlices, Zenon DEF Next

THEOREM Invariance == Spec => []IInv
<1>1. Init => IInv
  <2>1. Init => Slices
    BY DEF Init, NoReply, Slices, Unanswered, Collected, GetIsSlice
  <2> QED
    BY <2>1, InitTypes DEF IInv, Slices
<1>2. IInv /\ [Next]_vars => IInv'
  BY NextTypes, NextSlices DEF IInv, Slices
<1> QED
  BY <1>1, <1>2, PTL DEF Spec

\* InBounds: no index outside an array is read or written, for arrays of every depth,
\* all ranges and lists of every length.
THEOREM StaysInBounds == Spec => []InBounds
<1>1. IInv => InBounds
  <2> SUFFICES ASSUME IInv PROVE InBounds
    OBVIOUS
  <2>1. pc = "get" /\ More => index \in Indices
    BY InLoop DEF IInv
  <2>2. index \in 0 .. SizeTop
    BY Types DEF IInv
  <2>3. Settable => index \in Indices
    BY <2>2, Numbers DEF Settable, IndexChecked, Indices
  <2> QED
    BY <2>1, <2>3 DEF InBounds
<1> QED
  BY <1>1, Invariance, PTL

\* GetIsSlice: a get is answered with the elements that its path names, in order.
THEOREM GetsSlices == Spec => []GetIsSlice
<1>1. IInv => GetIsSlice
  BY DEF IInv
<1> QED
  BY <1>1, Invariance, PTL
=============================================================================
