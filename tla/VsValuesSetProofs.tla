-------------------------- MODULE VsValuesSetProofs --------------------------
(***************************************************************************)
(* Proofs about set: what it acknowledges it has put where get finds it, and   *)
(* what it refuses it has not begun.                                        *)
(***************************************************************************)
EXTENDS VsValuesProofs

\* Number of items that the loop of set has taken.
Done == Len(Put) - Len(rest)

\* They are in their places, and nothing else has changed.
Landed ==
  /\ \A k \in 1 .. Done : Holds(mem[At(path, k)], Put[k])
  /\ \A i \in Elements : (\A k \in 1 .. Done : i # At(path, k)) => mem[i] = before[i]

\* The items left are the last ones, and as long as there are no more than the path
\* names elements the index is at the next of them.
Putting ==
  pc = "set" =>
    /\ Wanted(path) /\ ~Single(path)
    /\ path = <<>> => Len(Put) = Width(path)
    /\ path # <<>> => object.api = "verilator" /\ Len(path) = 2
    /\ Len(rest) <= Len(Put) /\ \A i \in 1 .. Len(rest) : rest[i] = Put[Done + i]
    /\ Done <= Width(path) =>
         /\ index = IF Done = Width(path) THEN Stop ELSE At(path, Done + 1)
         /\ Supported => Landed
    /\ ~Supported => mem = before

Puts == Putting /\ SetIsSlice /\ RefusedLeavesAlone

-----------------------------------------------------------------------------
(* Places and items.                                                        *)

LEMMA Apart ==
  ASSUME NEW p \in Paths, Wanted(p)
  PROVE  \A j, k \in 1 .. Width(p) : At(p, j) = At(p, k) => j = k
<1>1. CASE p = <<>>
  BY <1>1, Numbers DEF Wanted, Width, At
<1>2. CASE p # <<>>
  <2>1. Left(p) \in Nat /\ Right(p) \in Nat
    BY <1>2, Sides
  <2>2. \A k \in Nat : At(p, k) = IF Descends(p) THEN Right(p) - k + 1 ELSE Right(p) + k - 1
    BY <1>2 DEF At
  <2>3. Width(p) \in Nat
    BY Walk
  <2> QED
    BY <2>1, <2>2, <2>3
<1> QED
  BY <1>1, <1>2

\* An item that is cast is held.
LEMMA CastHolds ==
  ASSUME NEW x \in Items, NEW y \in Cast(x)
  PROVE  Holds(y, x)
<1>1. CASE object.format = "real" \/ x = NaN
  BY <1>1 DEF Cast, Holds
<1>2. CASE object.format # "real" /\ x # NaN
  <2>1. x \in Nat
    BY <1>2, Numbers DEF Items
  <2>2. y = x - (x % 2)
    BY <1>2 DEF Cast
  <2>3. y <= x /\ x < y + 2
    BY <2>1, <2>2
  <2> QED
    BY <1>2, <2>3 DEF Holds
<1> QED
  BY <1>1, <1>2

LEMMA PutItems ==
  ASSUME TypeOK, ~Single(path)
  PROVE  Put \in Seq(Items) /\ Put = (IF value.list THEN value.items ELSE <<>>)
<1>1. Put = (IF value.list THEN value.items ELSE <<>>)
  BY Zenon DEF Put
<1>2. value.items \in Seq(Items)
  BY Types DEF Values_
<1> QED
  BY <1>1, <1>2, NoValues

LEMMA Quiet ==
  ASSUME pc' # "set", reply'.type \notin {"ack", "error"}
  PROVE  Puts'
  BY DEF Puts, Putting, SetIsSlice, RefusedLeavesAlone

-----------------------------------------------------------------------------
(* A set of one element, and the start of the loop.                         *)

\* What a set of one element puts is held.
LEMMA OneHolds ==
  ASSUME TypeOK, NEW p \in Paths, NEW v \in Values, SetAccepted(p, v), Single(p),
         object.shape # "param", NEW y \in SetTo(p, v), path' = p, value' = v, object' = object
  PROVE  \A k \in DOMAIN Put' : k = 1 /\ Holds(y, Put'[k])
<1>1. Put' = IF v.list THEN <<NaN>> ELSE IF object.shape = "event" THEN <<2>>
             ELSE IF v = NoValue THEN <<0>> ELSE v.items
  <2>1. Single(path)'
    BY Frame, Zenon
  <2> QED
    BY <2>1, Zenon DEF Put
<1>2. /\ v.items \in Seq(Items) /\ v.list \in BOOLEAN /\ GetNumberValue(v) \in Items
      /\ (~v.list => Len(v.items) <= 1)
  BY NumberItem, ValuesAssumption
<1>3. CASE object.shape = "event"
  <2>1. y = 2
    BY <1>3 DEF SetTo
  <2>2. object.format = "integer"
    <3>1. object \in VpiObjects \cup RegisteredVariables
      BY Types
    <3> QED
      BY <1>3, <3>1 DEF VpiObjects, RegisteredVariables, Object
  <2>3. Holds(2, NaN) /\ Holds(2, 2)
    BY <2>2 DEF Holds
  <2>4. Put' = <<NaN>> \/ Put' = <<2>>
    BY <1>1, <1>3, Zenon
  <2> QED
    BY <2>1, <2>3, <2>4
<1>4. CASE object.shape # "event"
  <2>1. y \in Cast(IF ~IsArray /\ v = NoValue THEN 0 ELSE GetNumberValue(v))
    BY <1>4 DEF SetTo
  <2>2. CASE v.list
    <3>1. GetNumberValue(v) = NaN /\ v # NoValue
      BY <2>2 DEF GetNumberValue, NoValue
    <3>2. y \in Cast(NaN) /\ NaN \in Items
      BY <1>2, <2>1, <3>1
    <3>3. Put' = <<NaN>>
      BY <1>1, <2>2, Zenon
    <3>4. Holds(y, NaN)
      BY <3>2, CastHolds
    <3> QED
      BY <3>3, <3>4
  <2>3. CASE ~v.list /\ v = NoValue
    <3>1. GetNumberValue(v) = NaN
      BY <2>3 DEF GetNumberValue
    <3>2. ~IsArray
      <4>1. SUFFICES ASSUME IsArray PROVE FALSE
        OBVIOUS
      <4>2. IF object.api = "vpi" THEN SetOneAccepted(v) ELSE v # NoValue
        BY <4>1, Zenon DEF SetAccepted
      <4>3. object.api = "vpi" /\ SetOneAccepted(v)
        BY <2>3, <4>2, Zenon
      <4> QED
        BY <1>4, <3>1, <4>3 DEF SetOneAccepted
    <3>3. y \in Cast(0) /\ 0 \in Items
      BY <2>1, <2>3, <3>2, WholeItems
    <3>4. Put' = <<0>>
      BY <1>1, <1>4, <2>3, Zenon
    <3>5. Holds(y, 0)
      BY <3>3, CastHolds
    <3> QED
      BY <3>4, <3>5
  <2>4. CASE ~v.list /\ v # NoValue
    <3>1. Put' = v.items
      BY <1>1, <1>4, <2>4, Zenon
    <3>2. GetNumberValue(v) = v.items[1]
      BY <2>4 DEF GetNumberValue
    <3>3. y \in Cast(v.items[1]) /\ v.items[1] \in Items
      BY <1>2, <2>1, <2>4, <3>2
    <3>4. Holds(y, v.items[1])
      BY <3>3, CastHolds
    <3>5. \A k \in DOMAIN v.items : k = 1
      BY <1>2, <2>4
    <3> QED
      BY <3>1, <3>4, <3>5
  <2> QED
    BY <1>2, <2>2, <2>3, <2>4
<1> QED
  BY <1>3, <1>4

\* The element of a single index is the first that its path names.
LEMMA OnePlace ==
  ASSUME TypeOK, NEW p \in Paths, NEW v \in Values, SetAccepted(p, v), Single(p)
  PROVE  One(p) = At(p, 1) /\ One(p) \in Elements
<1>1. CASE IsArray
  <2>1. p # <<>> /\ Left(p) = Right(p)
    BY <1>1, Zenon DEF Single
  <2>2. InRange(p)
    BY <1>1, Zenon DEF SetAccepted
  <2>3. Left(p) \in Nat /\ Left(p) < Depth /\ One(p) = Left(p)
    BY <1>1, <2>1, <2>2, Sides DEF InRange, One
  <2>4. At(p, 1) = Left(p)
    BY <2>1, <2>3 DEF At, Descends
  <2>5. Left(p) \in Indices
    BY <2>3, Numbers DEF Indices
  <2> QED
    BY <1>1, <2>3, <2>4, <2>5, IndexTypes
<1>2. CASE ~IsArray
  <2>1. p = <<>>
    BY <1>2, Zenon DEF SetAccepted
  <2> QED
    BY <1>2, <2>1, IndexTypes DEF One, At
<1> QED
  BY <1>1, <1>2

LEMMA SetPuts ==
  ASSUME TypeOK, NEW p \in Paths, NEW v \in Values, set(p, v)
  PROVE  Puts'
<1>1. /\ path' = p /\ value' = v /\ before' = mem /\ object' = object
      /\ \/ (Refuse /\ mem' = mem)
         \/ (SetAccepted(p, v) /\ Single(p)
              /\ (\E x \in SetTo(p, v) : mem' = [mem EXCEPT ![One(p)] = x])
              /\ Answer("ack", NoValue))
         \/ (SetAccepted(p, v) /\ ~Single(p)
              /\ pc' = "set" /\ index' = First(p)
              /\ rest' = (IF v.list THEN v.items ELSE <<>>)
              /\ reply' = NoReply /\ mem' = mem)
  BY DEF set
<1>2. CASE Refuse /\ mem' = mem
  <2>1. pc' = "idle" /\ reply'.type = "error" /\ mem' = before'
    BY <1>1, <1>2 DEF Refuse, Answer
  <2> QED
    BY <2>1 DEF Puts, Putting, SetIsSlice, RefusedLeavesAlone
<1>3. CASE SetAccepted(p, v) /\ Single(p)
             /\ (\E x \in SetTo(p, v) : mem' = [mem EXCEPT ![One(p)] = x])
             /\ Answer("ack", NoValue)
  <2>1. pc' = "idle" /\ reply'.type = "ack"
    BY <1>3 DEF Answer
  <2>2. PICK y \in SetTo(p, v) : mem' = [mem EXCEPT ![One(p)] = y]
    BY <1>3
  <2>3. One(p) = At(p, 1) /\ One(p) \in Elements
    BY <1>3, OnePlace
  <2>4. mem' = [mem EXCEPT ![At(p, 1)] = y] /\ At(p, 1) \in Elements /\ mem \in [Elements -> Held]
    BY <2>2, <2>3, HeldItems
  <2>5. mem'[At(p, 1)] = y /\ \A i \in Elements : i # At(p, 1) => mem'[i] = mem[i]
    BY <2>4
  <2>6. Elements' = Elements
    BY <1>1, Zenon DEF Elements, IsArray
  <2>7. SetIsSlice'
    <3> SUFFICES ASSUME object.shape # "param"
                 PROVE  /\ \A k \in DOMAIN Put' : Holds(mem'[At(p, k)], Put'[k])
                        /\ \A i \in Elements :
                             (\A k \in DOMAIN Put' : i # At(p, k)) => mem'[i] = mem[i]
      BY <1>1, <2>6, Zenon DEF SetIsSlice, Holds
    <3>1. \A k \in DOMAIN Put' : k = 1 /\ Holds(y, Put'[k])
      BY <1>1, <1>3, OneHolds
    <3>2. \A k \in DOMAIN Put' : Holds(mem'[At(p, k)], Put'[k])
      BY <2>5, <3>1, Zenon
    <3>3. 1 \in DOMAIN Put'
      <4>1. Put' = IF v.list THEN <<NaN>> ELSE IF object.shape = "event" THEN <<2>>
                   ELSE IF v = NoValue THEN <<0>> ELSE v.items
        <5>1. Single(path)'
          BY <1>1, <1>3, Frame, Zenon
        <5> QED
          BY <1>1, <5>1, Zenon DEF Put
      <4>2. v.list \/ v = NoValue \/ 1 \in DOMAIN v.items
        <5>1. v \in Values_ /\ v.items \in Seq(Items)
          BY ValuesAssumption DEF Values_
        <5>2. ~v.list /\ v.items = <<>> => v = NoValue
          BY <5>1 DEF Values_, NoValue
        <5>3. v.items # <<>> => 1 \in DOMAIN v.items
          BY <5>1, EmptySeq
        <5> QED
          BY <5>2, <5>3
      <4> QED
        BY <4>1, <4>2
    <3> QED
      BY <2>5, <3>2, <3>3
  <2> QED
    BY <2>1, <2>7 DEF Puts, Putting, RefusedLeavesAlone
<1>4. CASE SetAccepted(p, v) /\ ~Single(p)
             /\ pc' = "set" /\ index' = First(p)
             /\ rest' = (IF v.list THEN v.items ELSE <<>>)
             /\ reply' = NoReply /\ mem' = mem
  <2>1. IsArray
    BY <1>4, Zenon DEF Single
  <2>2. SetManyAccepted(p, v)
    BY <1>4, <2>1, Zenon DEF SetAccepted
  <2>3. /\ p # <<>> => object.api = "verilator" /\ InRange(p)
        /\ p = <<>> => v.list /\ Len(v.items) = Depth
    BY <2>2, Zenon DEF SetManyAccepted
  <2>4. Wanted(p) /\ ~Single(p) /\ (p = <<>> => Width(p) = Depth)
    BY <1>4, <2>1, <2>3, Zenon DEF Wanted, Width
  <2>5. p # <<>> => Len(p) = 2
    <3> SUFFICES ASSUME p # <<>>, Len(p) = 1 PROVE FALSE
      BY Sides
    <3>1. Left(p) = Right(p)
      BY DEF Left, Right
    <3> QED
      BY <2>1, <2>4, <3>1, Zenon DEF Single
  <2>6. Width(p) \in Nat /\ Width(p) >= 1 /\ First(p) = At(p, 1)
    BY <2>4, Walk
  <2>7. /\ Width(path)' = Width(p) /\ Single(path)' = Single(p) /\ Wanted(path)' = Wanted(p)
        /\ Supported' = Supported
    <3>1. /\ IsArray' = IsArray /\ Supported' = Supported /\ Single(path)' = Single(path')
          /\ Width(path)' = Width(path') /\ InRange(path)' = InRange(path') /\ path' = p
      BY <1>1, Frame, Zenon
    <3>2. Wanted(path)' = (IsArray' /\ (path' # <<>> => InRange(path)'))
      BY Zenon DEF Wanted
    <3> QED
      BY <3>1, <3>2, Zenon DEF Wanted
  <2>8. Put' = rest' /\ rest' \in Seq(Items)
    <3>1. Put' = (IF v.list THEN v.items ELSE <<>>)
      BY <1>1, <1>4, <2>7, Zenon DEF Put
    <3> QED
      BY <1>4, <3>1, NumberItem, NoValues
  <2>9. Done' = 0 /\ Len(rest') \in Nat
    BY <2>8 DEF Done
  <2>10. Landed'
    <3>1. \A k \in 1 .. Done' : FALSE
      BY <2>9
    <3> QED
      BY <1>1, <1>4, <3>1, Zenon DEF Landed
  <2>11. \A i \in 1 .. Len(rest') : rest'[i] = Put'[Done' + i]
    BY <2>8, <2>9
  <2>12. index' = IF Done' = Width(path)' THEN Stop' ELSE At(path', Done' + 1)
    BY <1>1, <1>4, <2>6, <2>7, <2>9
  <2>13. p = <<>> => Len(Put') = Width(path)'
    BY <1>4, <2>3, <2>4, <2>7, <2>8
  <2>14. Len(rest') <= Len(Put')
    BY <2>8, <2>9
  <2>15. Putting'
    BY <1>1, <1>4, <2>3, <2>4, <2>5, <2>7, <2>10, <2>11, <2>12, <2>13, <2>14, Zenon DEF Putting
  <2>16. reply'.type = "none"
    BY <1>4 DEF NoReply
  <2> QED
    BY <2>15, <2>16 DEF Puts, SetIsSlice, RefusedLeavesAlone
<1> QED
  BY <1>1, <1>2, <1>3, <1>4, Zenon

-----------------------------------------------------------------------------
(* The loop of set.                                                         *)

\* What the loop does not touch.
LEMMA LoopFrame ==
  ASSUME UNCHANGED <<object, path, value, before>>
  PROVE  /\ Put' = Put /\ Width(path)' = Width(path) /\ Single(path)' = Single(path)
         /\ Wanted(path)' = Wanted(path) /\ Supported' = Supported /\ Stop' = Stop
         /\ Elements' = Elements /\ Covered' = Covered
         /\ \A y, x : Holds(y, x)' = Holds(y, x)
<1>1. /\ Width(path)' = Width(path) /\ Single(path)' = Single(path) /\ Supported' = Supported
      /\ IsArray' = IsArray /\ InRange(path)' = InRange(path)
  BY Frame, Zenon
<1>2. Put' = Put
  BY <1>1, Zenon DEF Put
<1>3. Wanted(path)' = Wanted(path) /\ Elements' = Elements /\ Covered' = Covered
  BY <1>1, Zenon DEF Wanted, Elements, Covered
<1>4. Stop' = Stop
  BY Zenon DEF Stop, Descends, Left, Right
<1>5. \A y, x : Holds(y, x)' = Holds(y, x)
  BY Zenon DEF Holds
<1> QED
  BY <1>1, <1>2, <1>3, <1>4, <1>5

\* The loop, when it is at a place that is still to be filled.
LEMMA AtPlace ==
  ASSUME TypeOK, Putting, pc = "set", rest # <<>>
  PROVE  /\ Put \in Seq(Items) /\ Done \in Nat /\ Done + 1 \in 1 .. Len(Put)
         /\ Len(rest) \in Nat \ {0} /\ Head(rest) = Put[Done + 1] /\ Head(rest) \in Items
         /\ Width(path) \in Nat /\ Wanted(path) /\ path \in Paths
         /\ Done + 1 <= Width(path) =>
              /\ Done + 1 \in 1 .. Width(path) /\ Done <= Width(path)
              /\ index = At(path, Done + 1) /\ index \in Indices
<1>1. /\ Wanted(path) /\ ~Single(path) /\ Len(rest) <= Len(Put)
      /\ \A i \in 1 .. Len(rest) : rest[i] = Put[Done + i]
      /\ Done <= Width(path) => index = IF Done = Width(path) THEN Stop ELSE At(path, Done + 1)
  BY Zenon DEF Putting
<1>2. path \in Paths /\ rest \in Seq(Items)
  BY Types
<1>3. Put \in Seq(Items)
  BY <1>1, PutItems
<1>4. Len(rest) \in Nat \ {0} /\ Len(Put) \in Nat
  BY <1>2, <1>3, EmptySeq
<1>5. Done \in Nat /\ Done + 1 \in 1 .. Len(Put)
  BY <1>1, <1>4 DEF Done
<1>6. Head(rest) = rest[1] /\ rest[1] \in Items /\ 1 \in 1 .. Len(rest)
  BY <1>2, <1>4
<1>7. Width(path) \in Nat /\ \A k \in 1 .. Width(path) : At(path, k) \in Indices
  BY <1>1, <1>2, Walk
<1>8. ASSUME Done + 1 <= Width(path)
      PROVE  /\ Done + 1 \in 1 .. Width(path) /\ Done <= Width(path)
             /\ index = At(path, Done + 1) /\ index \in Indices
  <2>1. Done + 1 \in 1 .. Width(path) /\ Done <= Width(path) /\ Done # Width(path)
    BY <1>5, <1>7, <1>8
  <2> QED
    BY <1>1, <1>7, <2>1
<1> QED
  BY <1>1, <1>2, <1>3, <1>4, <1>5, <1>6, <1>7, <1>8

\* One item is taken: its rest and its place.
LEMMA ItemTaken ==
  ASSUME TypeOK, Putting, pc = "set", rest # <<>>, rest' = Tail(rest), Step,
         UNCHANGED <<object, path, value, before>>
  PROVE  /\ Done' = Done + 1 /\ Len(rest') <= Len(Put)
         /\ \A i \in 1 .. Len(rest') : rest'[i] = Put[Done' + i]
         /\ Done' <= Width(path) =>
              index' = IF Done' = Width(path) THEN Stop ELSE At(path, Done' + 1)
<1>1. /\ Done \in Nat /\ Len(rest) \in Nat \ {0} /\ Width(path) \in Nat /\ Wanted(path)
      /\ path \in Paths /\ Put \in Seq(Items)
      /\ Done + 1 <= Width(path) =>
           Done + 1 \in 1 .. Width(path) /\ index = At(path, Done + 1)
  BY AtPlace
<1>2. rest \in Seq(Items) /\ Put' = Put
  BY Types, LoopFrame
<1>3. Len(rest') = Len(rest) - 1 /\ \A i \in 1 .. Len(rest') : rest'[i] = rest[i + 1]
  BY <1>2, HeadTailProperties
<1>4. Done' = Done + 1
  <2>1. Len(Put) \in Nat
    BY <1>1
  <2> QED
    BY <1>1, <1>2, <1>3, <2>1 DEF Done
<1>5. Len(rest) <= Len(Put) /\ \A i \in 1 .. Len(rest) : rest[i] = Put[Done + i]
  BY Zenon DEF Putting
<1>6. Len(rest') <= Len(Put)
  <2>1. Len(Put) \in Nat
    BY <1>1
  <2> QED
    BY <1>1, <1>3, <1>5, <2>1
<1>7. ASSUME NEW i \in 1 .. Len(rest') PROVE rest'[i] = Put[Done' + i]
  <2>1. i + 1 \in 1 .. Len(rest) /\ Done' + i = Done + (i + 1)
    BY <1>1, <1>3, <1>4
  <2> QED
    BY <1>3, <1>5, <2>1
<1>8. ASSUME Done' <= Width(path)
      PROVE  index' = IF Done' = Width(path) THEN Stop ELSE At(path, Done' + 1)
  <2>1. Done + 1 \in 1 .. Width(path) /\ index = At(path, Done + 1)
    BY <1>1, <1>4, <1>8
  <2>2. index' = Next_size_t(At(path, Done + 1), path # <<>> /\ Descends(path))
    BY <2>1 DEF Step
  <2>3. Next_size_t(At(path, Done + 1), path # <<>> /\ Descends(path)) =
          IF Done + 1 = Width(path) THEN Stop ELSE At(path, (Done + 1) + 1)
    BY <1>1, <2>1, Paces
  <2> QED
    BY <1>4, <2>2, <2>3, Zenon
<1> QED
  BY <1>4, <1>6, <1>7, <1>8

\* What holds of the loop after any of its steps that goes on.
LEMMA GoesOn ==
  ASSUME TypeOK, Putting, pc = "set", rest # <<>>, rest' = Tail(rest), Step, pc' = pc,
         UNCHANGED <<object, path, value, before>>, reply'.type = "none",
         Done + 1 <= Width(path) /\ Supported => Landed', ~Supported => mem' = before
  PROVE  Puts'
<1>1. /\ Done' = Done + 1 /\ Len(rest') <= Len(Put)
      /\ \A i \in 1 .. Len(rest') : rest'[i] = Put[Done' + i]
      /\ Done' <= Width(path) =>
           index' = IF Done' = Width(path) THEN Stop ELSE At(path, Done' + 1)
  BY ItemTaken
<1>2. /\ Put' = Put /\ Width(path)' = Width(path) /\ Single(path)' = Single(path)
      /\ Wanted(path)' = Wanted(path) /\ Supported' = Supported /\ Stop' = Stop
  BY LoopFrame
<1>3. Putting'
  BY <1>1, <1>2, Zenon DEF Putting
<1> QED
  BY <1>3 DEF Puts, SetIsSlice, RefusedLeavesAlone

LEMMA SetElementPuts ==
  ASSUME TypeOK, Unanswered, Puts, SetElement
  PROVE  Puts'
<1>1. /\ pc = "set" /\ rest # <<>> /\ Putting /\ reply.type = "none"
      /\ UNCHANGED <<object, path, value, before>>
  BY DEF SetElement, Puts, Unanswered, request
<1>2. /\ Put \in Seq(Items) /\ Done \in Nat /\ Done + 1 \in 1 .. Len(Put)
      /\ Head(rest) = Put[Done + 1] /\ Head(rest) \in Items
      /\ Width(path) \in Nat /\ Wanted(path) /\ path \in Paths
      /\ Done + 1 <= Width(path) =>
           /\ Done + 1 \in 1 .. Width(path) /\ Done <= Width(path)
           /\ index = At(path, Done + 1) /\ index \in Indices
  BY <1>1, AtPlace
<1>3. /\ Put' = Put /\ Elements' = Elements /\ Supported' = Supported
      /\ \A y, x : Holds(y, x)' = Holds(y, x)
  BY <1>1, LoopFrame
<1>4. Elements = Indices
  BY <1>2, IndexTypes DEF Wanted
<1>5. CASE Settable /\ (\E x \in Cast(Head(rest)) : mem' = [mem EXCEPT ![index] = x])
             /\ Step /\ rest' = Tail(rest) /\ UNCHANGED <<pc, reply>>
  <2>1. PICK y \in Cast(Head(rest)) : mem' = [mem EXCEPT ![index] = y]
    BY <1>5
  <2>2. Holds(y, Put[Done + 1])
    BY <1>2, CastHolds
  <2>3. Supported /\ (Done <= Width(path) => Landed)
    BY <1>1, <1>5, Zenon DEF Settable, Putting
  <2>4. Done' = Done + 1
    BY <1>1, <1>5, ItemTaken
  <2>5. ASSUME Done + 1 <= Width(path) PROVE Landed'
    <3>1. /\ Done + 1 \in 1 .. Width(path) /\ index = At(path, Done + 1) /\ index \in Elements
          /\ Landed
      BY <1>2, <1>4, <2>3, <2>5
    <3>2. mem'[index] = y /\ \A i \in Elements : i # index => mem'[i] = mem[i]
      BY <2>1, <3>1, HeldItems
    <3>3. ASSUME NEW k \in 1 .. Done + 1 PROVE Holds(mem'[At(path, k)], Put[k])
      <4>1. CASE k = Done + 1
        BY <2>2, <3>1, <3>2, <4>1
      <4>2. CASE k # Done + 1
        <5>1. k \in 1 .. Done /\ k \in 1 .. Width(path)
          BY <1>2, <3>1, <4>2
        <5>2. Holds(mem[At(path, k)], Put[k])
          BY <3>1, <5>1, Zenon DEF Landed
        <5>3. At(path, k) # index /\ At(path, k) \in Elements
          BY <1>2, <1>4, <3>1, <4>2, <5>1, Apart, Walk
        <5> QED
          BY <3>2, <5>2, <5>3, Zenon
      <4> QED
        BY <4>1, <4>2
    <3>4. ASSUME NEW i \in Elements, \A k \in 1 .. Done + 1 : i # At(path, k)
          PROVE  mem'[i] = before[i]
      <4>1. i # index /\ \A k \in 1 .. Done : i # At(path, k)
        <5>1. Done + 1 \in 1 .. Done + 1 /\ \A k \in 1 .. Done : k \in 1 .. Done + 1
          BY <1>2
        <5> QED
          BY <3>1, <3>4, <5>1, Zenon
      <4>2. mem[i] = before[i]
        BY <3>1, <4>1, Zenon DEF Landed
      <4> QED
        BY <3>2, <4>1, <4>2
    <3> QED
      BY <1>1, <1>3, <2>4, <3>3, <3>4, Zenon DEF Landed, Holds
  <2>6. reply'.type = "none" /\ pc' = pc
    BY <1>1, <1>5
  <2> QED
    BY <1>1, <1>5, <2>3, <2>5, <2>6, GoesOn, Zenon
<1>6. CASE ~Settable /\ path # <<>> /\ Refuse /\ UNCHANGED <<mem, index, rest>>
  <2>1. pc' = "idle" /\ reply'.type = "error"
    BY <1>6 DEF Refuse, Answer
  <2>2. mem = before \/ (object.api = "verilator" /\ Len(path) = 2 /\ ~Covered)
    <3>1. CASE ~Supported
      BY <1>1, <3>1, Zenon DEF Putting
    <3>2. CASE Supported
      <4>1. ~(Done + 1 <= Width(path))
        <5>1. index \in Indices => IndexChecked(index)
          BY Numbers DEF Indices, IndexChecked
        <5> QED
          BY <1>2, <1>6, <3>2, <5>1, Zenon DEF Settable
      <4>2. Len(Put) > Width(path)
        BY <1>2, <4>1
      <4>3. Put = value.items
        <5>1. ~Single(path)
          BY <1>1, Zenon DEF Putting
        <5>2. Put = (IF value.list THEN value.items ELSE <<>>)
          BY <5>1, PutItems
        <5> QED
          BY <1>2, <5>2
      <4>4. ~Covered
        <5>1. Len(Put) \in Nat
          BY <1>2
        <5> QED
          BY <1>2, <4>2, <4>3, <5>1 DEF Covered
      <4>5. object.api = "verilator" /\ Len(path) = 2
        BY <1>1, <1>6, Zenon DEF Putting
      <4> QED
        BY <4>4, <4>5
    <3> QED
      BY <3>1, <3>2
  <2>3. RefusedLeavesAlone'
    <3>1. Covered' = Covered /\ mem' = mem
      BY <1>1, <1>6, LoopFrame
    <3> QED
      BY <1>1, <2>2, <3>1, Zenon DEF RefusedLeavesAlone
  <2> QED
    BY <2>1, <2>3 DEF Puts, Putting, SetIsSlice
<1>7. CASE ~Settable /\ path = <<>> /\ Step /\ rest' = Tail(rest) /\ UNCHANGED <<mem, pc, reply>>
  <2>1. Done + 1 <= Width(path)
    <3>1. Len(Put) = Width(path)
      BY <1>1, <1>7, Zenon DEF Putting
    <3> QED
      BY <1>2, <3>1
  <2>2. ~Supported
    <3>1. index \in Indices => IndexChecked(index)
      BY Numbers DEF Indices, IndexChecked
    <3> QED
      BY <1>2, <1>7, <2>1, <3>1, Zenon DEF Settable
  <2>3. mem' = before
    BY <1>1, <1>7, <2>2, Zenon DEF Putting
  <2>4. reply'.type = "none" /\ pc' = pc
    BY <1>1, <1>7
  <2> QED
    BY <1>1, <1>7, <2>2, <2>3, <2>4, GoesOn, Zenon
<1> QED
  BY <1>5, <1>6, <1>7, Zenon DEF SetElement

LEMMA SetDonePuts ==
  ASSUME TypeOK, Puts, SetDone
  PROVE  Puts'
<1>1. /\ pc = "set" /\ rest = <<>> /\ pc' = "idle" /\ reply'.type = "ack" /\ mem' = mem
      /\ UNCHANGED <<object, path, value, before>>
  BY DEF SetDone, Answer, request
<1>2. Putting
  BY DEF Puts
<1>3. Wanted(path) /\ ~Single(path) /\ path \in Paths
  BY <1>1, <1>2, Types, Zenon DEF Putting
<1>4. Put \in Seq(Items) /\ Put = (IF value.list THEN value.items ELSE <<>>)
  BY <1>3, PutItems
<1>5. Done = Len(Put) /\ DOMAIN Put = 1 .. Done /\ Width(path) \in Nat
  BY <1>1, <1>3, <1>4, Walk DEF Done
<1>6. /\ Put' = Put /\ Supported' = Supported /\ Single(path)' = Single(path)
      /\ Elements' = Elements /\ Covered' = Covered
      /\ \A y, x : Holds(y, x)' = Holds(y, x)
  BY <1>1, LoopFrame
<1>7. ASSUME Supported, Covered PROVE Landed
  <2>1. Done <= Width(path)
    BY <1>4, <1>5, <1>7 DEF Covered
  <2> QED
    BY <1>1, <1>2, <1>7, <2>1, Zenon DEF Putting
<1>8. SetIsSlice'
  BY <1>1, <1>3, <1>5, <1>6, <1>7, Zenon DEF SetIsSlice, Landed, Holds
<1> QED
  BY <1>1, <1>8 DEF Puts, Putting, RefusedLeavesAlone

LEMMA NextPuts ==
  ASSUME IInv, Puts, [Next]_vars
  PROVE  Puts'
<1>1. TypeOK /\ Unanswered /\ Collected
  BY DEF IInv
<1>2. ASSUME NEW p \in Paths, get(p) PROVE Puts'
  <2>1. /\ path' = p /\ before' = mem /\ mem' = mem
        /\ (pc' = "idle" \/ pc' = "get")
        /\ reply'.type \in {"error", "result", "none"}
    BY <1>2 DEF get, Refuse, Answer, NoReply
  <2> QED
    BY <2>1 DEF Puts, Putting, SetIsSlice, RefusedLeavesAlone
<1>3. CASE GetElement \/ GetDone
  <2>1. pc = "get" /\ reply.type = "none"
    BY <1>1, <1>3 DEF GetElement, GetDone, Unanswered
  <2>2. pc' # "set" /\ reply'.type \notin {"ack", "error"}
    BY <1>3, <2>1 DEF GetElement, GetDone, Answer
  <2> QED
    BY <2>2, Quiet
<1>4. CASE Return
  <2>1. pc' # "set" /\ reply'.type \notin {"ack", "error"}
    BY <1>4 DEF Return, NoReply
  <2> QED
    BY <2>1, Quiet
<1>5. CASE UNCHANGED vars
  <2>1. UNCHANGED <<object, mem, pc, path, value, before, index, rest, reply>>
    BY <1>5 DEF vars, request, loop
  <2>2. /\ Put' = Put /\ Width(path)' = Width(path) /\ Single(path)' = Single(path)
        /\ Wanted(path)' = Wanted(path) /\ Supported' = Supported /\ Stop' = Stop
        /\ Elements' = Elements /\ Covered' = Covered
    BY <2>1, LoopFrame
  <2>3. Done' = Done
    BY <2>1, <2>2, Zenon DEF Done
  <2>4. Landed' = Landed
    BY <2>1, <2>2, <2>3, Zenon DEF Landed, Holds
  <2>5. Putting'
    BY <2>1, <2>2, <2>3, <2>4, Zenon DEF Puts, Putting
  <2>6. SetIsSlice'
    BY <2>1, <2>2, Zenon DEF Puts, SetIsSlice, Holds
  <2>7. RefusedLeavesAlone'
    BY <2>1, <2>2, Zenon DEF Puts, RefusedLeavesAlone
  <2> QED
    BY <2>5, <2>6, <2>7 DEF Puts
<1>6. CASE Loop
  BY <1>1, <1>3, <1>6, SetElementPuts, SetDonePuts DEF Loop
<1> QED
  BY <1>1, <1>2, <1>4, <1>5, <1>6, SetPuts, Zenon DEF Next

LEMMA AlwaysPuts == Spec => []Puts
<1>1. Init => Puts
  BY DEF Init, NoReply, Puts, Putting, SetIsSlice, RefusedLeavesAlone
<1>2. IInv /\ Puts /\ [Next]_vars => Puts'
  BY NextPuts
<1> QED
  BY <1>1, <1>2, Invariance, PTL DEF Spec

\* SetIsSlice: what a set acknowledges it has put where a get of the same path finds
\* it, and nothing else has changed, for arrays of every depth and every range.
THEOREM SetsSlices == Spec => []SetIsSlice
<1>1. Puts => SetIsSlice
  BY DEF Puts
<1> QED
  BY <1>1, AlwaysPuts, PTL

\* RefusedLeavesAlone: a set that is refused has changed nothing, but for a range that
\* is given too many items.
THEOREM RefusalsLeaveAlone == Spec => []RefusedLeavesAlone
<1>1. Puts => RefusedLeavesAlone
  BY DEF Puts
<1> QED
  BY <1>1, AlwaysPuts, PTL
=============================================================================
