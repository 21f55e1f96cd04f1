------------------------------ MODULE VsValues ------------------------------
(***************************************************************************)
(* set and get of the objects of a design: what a VPI simulator gives a        *)
(* handle to (src/vs_vpi.c, vs_vpi_get.c, vs_utils.c), or a registered variable *)
(* of the Verilator integration, with the ranges of an array                 *)
(* (vsl_integ_cmd_set.hpp, vsl_integ_cmd_get.hpp, vsl_types.cpp,              *)
(* vsl_utils.cpp).  Each pass of a loop over the elements is a step.          *)
(*                                                                          *)
(* A path is <<>> for the whole object, <<i>> for "[i]", <<l, r>> for "[l:r]". *)
(* A value is a list of items, or a single item; items are numbers in halves, *)
(* so that truncation shows, or NaN for whatever is not a number.           *)
(***************************************************************************)
EXTENDS Integers, Sequences

CONSTANTS
  Depth,     \* elements of an array
  SizeTop,   \* largest value of size_t
  MaxHalves, \* largest item
  Values,    \* values of a set request
  MaxIndex,  \* bound: largest index in a path
  NaN

Items == 0 .. MaxHalves \cup {NaN}

ASSUME ValuesAssumption ==
  /\ Depth \in Nat \ {0} /\ SizeTop \in Nat /\ Depth < SizeTop
  /\ MaxHalves \in Nat /\ MaxHalves >= 2 /\ MaxIndex \in Nat /\ NaN \notin Int
  /\ Values \subseteq [list : BOOLEAN, items : Seq(Items)]
  /\ \A v \in Values : ~v.list => Len(v.items) <= 1

VARIABLES
  object,    \* the object: API, shape, and format of its elements
  mem,       \* the elements; an object that is no array is element 0
  pc,        \* "idle", or in the loop of "set" or of "get"
  path,      \* the path of the request
  value,     \* the value of the request
  index,     \* mem_index
  rest,      \* items not looked at yet
  ans,       \* elements collected by get
  reply,     \* what the last request was answered
  before     \* history: the elements when the last request came

request == <<path, value, before>>
loop    == <<index, rest, ans>>
vars    == <<object, mem, pc, request, loop, reply>>

Formats == {"integer", "real", "none"}

Object(api, shapes, formats) == [api : {api}, shape : shapes, format : formats]

\* The objects of a simulator (obj_format_table): a memory has words of bits, and a
\* parameter is read as a real number.
VpiObjects ==
  Object("vpi", {"scalar"}, Formats) \cup Object("vpi", {"array"}, {"integer", "none"})
    \cup Object("vpi", {"param"}, {"real"}) \cup Object("vpi", {"event"}, {"integer"})

\* The variables of a testbench (register_scalar and its like).
RegisteredVariables ==
  Object("verilator", {"scalar", "array", "param"}, Formats)
    \cup Object("verilator", {"clock", "event"}, {"integer"})

IsArray == object.shape = "array"

\* The format is one that the code converts.
Supported == object.format # "none"

Indices  == 0 .. Depth - 1
Elements == IF IsArray THEN Indices ELSE {0}

\* What the design and an integer object hold.
Whole == {x \in 0 .. MaxHalves : x % 2 = 0}

Paths == {<<>>} \cup {<<i>> : i \in 0 .. MaxIndex}
                \cup {<<l, r>> : l, r \in 0 .. MaxIndex}

Number(x) == [list |-> FALSE, items |-> <<x>>]
List(s)   == [list |-> TRUE, items |-> s]
NoValue   == [list |-> FALSE, items |-> <<>>]

NoReply == [type |-> "none", value |-> NoValue]

---------------------------------------------------------------------------
(* get_range, on a path with one or two indices.                            *)

Left(p)  == p[1]
Right(p) == p[Len(p)]

\* The increment is -1 if the range is written in ascending order.
Descends(p) == Right(p) > Left(p)

\* The next value of a size_t: it wraps.
Next_size_t(i, down) ==
  IF down THEN IF i = 0 THEN SizeTop ELSE i - 1
  ELSE IF i = SizeTop THEN 0 ELSE i + 1

InRange_Right(p) == Right(p) < Depth

InRange(p) == Left(p) < Depth /\ Right(p) < Depth

Cast_Untruncated(x) ==
  IF object.format = "integer" /\ x = NaN THEN Whole ELSE {x}

\* What is stored of a number: an integer object truncates it.  To convert what is
\* not a number is undefined: it yields any value.
Cast(x) ==
  IF object.format = "real" THEN {x}
  ELSE IF x = NaN THEN Whole ELSE {x - (x % 2)}

\* cJSON_GetNumberValue of a list, or of nothing, is not a number.
GetNumberValue(v) == IF v.list \/ v = NoValue THEN NaN ELSE v.items[1]

---------------------------------------------------------------------------
(* Requests.                                                                *)

Answer(type, v) == pc' = "idle" /\ reply' = [type |-> type, value |-> v]

Refuse == Answer("error", NoValue)

\* One element: the range [i:i] is a single index.
Single(p) == IsArray => p # <<>> /\ Left(p) = Right(p)

\* The element of a single index.
One(p) == IF IsArray THEN Left(p) ELSE 0

\* set of an object that is no array, or of a word of a memory: an event needs no
\* value, and a variable of Verilator is set to 0 without one.
SetOneAccepted(v) ==
  \/ object.api = "vpi" /\ object.shape = "event"
  \/ object.api = "vpi" /\ Supported /\ GetNumberValue(v) # NaN
  \/ /\ object.api = "verilator" /\ Supported /\ object.shape \in {"scalar", "event"}
     /\ (v = NoValue \/ GetNumberValue(v) # NaN)

\* set of the whole of an array, or of a range: a simulator has no handle for it.
SetManyAccepted(p, v) ==
  IF p = <<>> THEN v.list /\ Len(v.items) = Depth
  ELSE object.api = "verilator" /\ InRange(p) /\ v # NoValue

\* A word of a memory is an object of its own; an index of an array variable of
\* Verilator is set to whatever the number is.
SetAccepted(p, v) ==
  IF ~IsArray THEN p = <<>> /\ SetOneAccepted(v)
  ELSE IF ~Single(p) THEN SetManyAccepted(p, v) /\ (object.api = "vpi" => Supported)
  ELSE /\ InRange(p) /\ Supported
       /\ IF object.api = "vpi" THEN Len(p) = 1 /\ SetOneAccepted(v) ELSE v # NoValue

\* get of an event of a simulator, of a clock, or of a type that is not converted is
\* refused; an array of Verilator is read whatever its type.
GetAccepted(p) ==
  IF object.api = "vpi"
  THEN Supported /\ object.shape # "event" /\ Len(p) < 2 /\ (p # <<>> => IsArray /\ InRange(p))
  ELSE IF IsArray THEN p # <<>> => InRange(p)
  ELSE p = <<>> /\ Supported /\ object.shape # "clock"

\* What one element becomes.  An event is triggered; a simulator leaves a parameter
\* alone.
SetTo(p, v) ==
  IF object.shape = "event" THEN {2}
  ELSE IF object.shape = "param" THEN {mem[0]}
  ELSE Cast(IF ~IsArray /\ v = NoValue THEN 0 ELSE GetNumberValue(v))

First_Left(p) == IF p = <<>> THEN 0 ELSE Left(p)

\* The first element of a loop: that of the right index.
First(p) == IF p = <<>> THEN 0 ELSE Right(p)

\* A request is read when the one before has been answered, and left behind.
Ready == pc = "idle" /\ reply.type = "none"

\* get_array_value is 0 for a type that it does not convert, and does not look at
\* the index: beyond the array it would be anything.
Get(i) == IF Supported /\ i \in Elements THEN mem[i] ELSE 0

set(p, v) ==
  /\ Ready
  /\ path' = p /\ value' = v /\ before' = mem
  /\ UNCHANGED object
  /\ \/ ~SetAccepted(p, v) /\ Refuse /\ UNCHANGED <<mem, loop>>
     \/ /\ SetAccepted(p, v) /\ Single(p)
        /\ \E x \in SetTo(p, v) : mem' = [mem EXCEPT ![One(p)] = x]
        /\ Answer("ack", NoValue)
        /\ UNCHANGED loop
     \/ /\ SetAccepted(p, v) /\ ~Single(p)
        /\ pc' = "set" /\ index' = First(p) /\ ans' = <<>>
        /\ rest' = IF v.list THEN v.items ELSE <<>>
        /\ reply' = NoReply
        /\ UNCHANGED mem

get(p) ==
  /\ Ready
  /\ path' = p /\ value' = NoValue /\ before' = mem
  /\ UNCHANGED <<object, mem>>
  /\ \/ ~GetAccepted(p) /\ Refuse /\ UNCHANGED loop
     \/ /\ GetAccepted(p) /\ Single(p)
        /\ Answer("result", Number(Get(One(p))))
        /\ UNCHANGED loop
     \/ /\ GetAccepted(p) /\ ~Single(p)
        /\ pc' = "get" /\ index' = First(p) /\ rest' = <<>> /\ ans' = <<>>
        /\ reply' = NoReply

---------------------------------------------------------------------------
(* The loops.                                                               *)

IndexChecked_Late(i) == i <= Depth

\* set_array_value refuses an index beyond the array, also one that has wrapped.
IndexChecked(i) == i <= Depth - 1

Step == index' = Next_size_t(index, path # <<>> /\ Descends(path))

Settable == Supported /\ IndexChecked(index)

\* One element.  The loop over a range ends at the first that is refused, the one
\* over the whole array (set_array_variable_value) does not look.
SetElement ==
  /\ pc = "set" /\ rest # <<>>
  /\ \/ /\ Settable
        /\ \E x \in Cast(Head(rest)) : mem' = [mem EXCEPT ![index] = x]
        /\ Step /\ rest' = Tail(rest)
        /\ UNCHANGED <<pc, reply>>
     \/ /\ ~Settable /\ path # <<>>
        /\ Refuse
        /\ UNCHANGED <<mem, index, rest>>
     \/ /\ ~Settable /\ path = <<>>
        /\ Step /\ rest' = Tail(rest)
        /\ UNCHANGED <<mem, pc, reply>>
  /\ UNCHANGED <<object, request, ans>>

\* Where the loop of get ends: one step beyond the left index.
Stop == IF path = <<>> THEN Depth ELSE Next_size_t(Left(path), Descends(path))

SetDone_Complete ==
  /\ pc = "set" /\ rest = <<>> /\ index = Stop
  /\ Answer("ack", NoValue)
  /\ UNCHANGED <<object, mem, request, loop>>

\* The items are used up, whether or not the range is.
SetDone ==
  /\ pc = "set" /\ rest = <<>>
  /\ Answer("ack", NoValue)
  /\ UNCHANGED <<object, mem, request, loop>>

More_Less == index < Stop

\* The whole array is read up to its depth, a range until the index is passed.
More == IF path = <<>> THEN index < Depth ELSE index # Stop

GetElement ==
  /\ pc = "get" /\ More
  /\ ans' = Append(ans, Get(index))
  /\ Step
  /\ UNCHANGED <<object, mem, pc, request, rest, reply>>

GetDone ==
  /\ pc = "get" /\ ~More
  /\ Answer("result", List(ans))
  /\ UNCHANGED <<object, mem, request, loop>>

\* The handler has returned, its variables are gone, and before the next request
\* the design may change an element.
Return ==
  /\ pc = "idle" /\ reply.type # "none"
  /\ \/ mem' = mem
     \/ \E i \in Elements, x \in Whole : mem' = [mem EXCEPT ![i] = x]
  /\ before' = mem' /\ path' = <<>> /\ value' = NoValue
  /\ index' = 0 /\ rest' = <<>> /\ ans' = <<>> /\ reply' = NoReply
  /\ UNCHANGED <<object, pc>>

Loop == SetElement \/ SetDone \/ GetElement \/ GetDone

Init ==
  /\ object \in VpiObjects \cup RegisteredVariables
  /\ mem \in [Elements -> Whole] /\ before = mem
  /\ pc = "idle" /\ path = <<>> /\ value = NoValue
  /\ index = 0 /\ rest = <<>> /\ ans = <<>> /\ reply = NoReply

Next ==
  \/ \E p \in Paths : (\E v \in Values : set(p, v)) \/ get(p)
  \/ Loop
  \/ Return

Spec == Init /\ [][Next]_vars

FairSpec == Spec /\ WF_vars(Loop)

---------------------------------------------------------------------------
(* Properties.  Elements of a path, in the order of the loops.              *)

\* Number of elements that a path names.
Width(p) ==
  IF ~IsArray THEN 1 ELSE IF p = <<>> THEN Depth
  ELSE IF Descends(p) THEN Right(p) - Left(p) + 1 ELSE Left(p) - Right(p) + 1

\* The k-th of them, counted from 1 and from the right index.
At(p, k) ==
  IF p = <<>> THEN k - 1
  ELSE IF Descends(p) THEN Right(p) - k + 1 ELSE Right(p) + k - 1

\* Every variable holds a value of its type: an integer object holds no fraction.
TypeOK ==
  /\ object \in VpiObjects \cup RegisteredVariables
  /\ mem \in [Elements -> IF object.format = "real" THEN Items ELSE Whole]
  /\ before \in [Elements -> Items]
  /\ pc \in {"idle", "set", "get"} /\ path \in Paths
  /\ index \in 0 .. SizeTop /\ rest \in Seq(Items) /\ ans \in Seq(Items)
  /\ value \in [list : BOOLEAN, items : Seq(Items)]
  /\ reply \in [type : {"none", "ack", "error", "result"},
                value : [list : BOOLEAN, items : Seq(Items)]]

\* No element outside the array is read or written, whatever the direction of the
\* range and the number of items, although the index goes beyond both ends and
\* wraps (add_array_to_msg, which checks no index, and set_array_value).
InBounds ==
  /\ pc = "get" /\ More => index \in Indices
  /\ pc = "set" /\ rest # <<>> /\ Settable => index \in Indices

\* A get is answered with the elements that its path names, in order, and a single
\* one with a number (add_array_to_msg, get_value of vs_vpi_get.c).
GetIsSlice ==
  reply.type = "result" /\ Supported =>
    IF Single(path) THEN reply.value = Number(mem[At(path, 1)])
    ELSE /\ reply.value.list
         /\ Len(reply.value.items) = Width(path)
         /\ \A k \in 1 .. Width(path) : reply.value.items[k] = mem[At(path, k)]

\* The value gives no more items than the path names elements.
Covered == Len(value.items) <= Width(path)

\* The items that a set puts, in the order of its loop.
Put ==
  IF ~Single(path) THEN IF value.list THEN value.items ELSE <<>>
  ELSE IF value.list THEN <<NaN>>
  ELSE IF object.shape = "event" THEN <<2>>
  ELSE IF value = NoValue THEN <<0>> ELSE value.items

\* What an element holds of an item: all of it, or its whole part.
Holds(y, x) ==
  IF object.format = "real" THEN y = x ELSE x = NaN \/ (y <= x /\ x < y + 2)

\* A set that is acknowledged has put its items, truncated, where a get of the same
\* path finds them, and has changed nothing else.  Two are acknowledged and not
\* written: a whole array of Verilator of another type, and a parameter of a simulator.
SetIsSlice ==
  reply.type = "ack" /\ Supported /\ object.shape # "param" /\ (Single(path) \/ Covered) =>
    /\ \A k \in DOMAIN Put : Holds(mem[At(path, k)], Put[k])
    /\ \A i \in Elements :
         (\A k \in DOMAIN Put : i # At(path, k)) => mem[i] = before[i]

\* A set that is refused has changed nothing, but for a range that is given more
\* items than the array has room for.
RefusedLeavesAlone ==
  reply.type = "error" =>
    mem = before \/ (object.api = "verilator" /\ Len(path) = 2 /\ ~Covered)

\* Every loop ends: the index meets the end of its range.
EveryRequestAnswered == pc # "idle" ~> pc = "idle"
=============================================================================
