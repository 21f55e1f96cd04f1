------------------------------ MODULE VsClocks ------------------------------
(***************************************************************************)
(* The clocks of the Verilator integration (vsl_clocks.hpp, vsl_clocks.cpp): *)
(* a clock is a record, the clock map a list of them that is kept sorted so   *)
(* that its head is the next one to toggle.                                 *)
(***************************************************************************)
EXTENDS Naturals, SequencesExt

CONSTANTS
  Clocks,  \* names of the registered clocks
  Waves    \* [high, low]: the two parts of a period, in simulation time

ASSUME ClocksAssumption ==
  /\ IsFiniteSet(Clocks)
  /\ Waves \subseteq [high : Nat, low : Nat \ {0}]

Clock == [name : Clocks, enabled : BOOLEAN, waiting : BOOLEAN, next : Nat,
          value : {0, 1}, high : Nat, low : Nat \ {0}]

-----------------------------------------------------------------------------
(* VslClock                                                                 *)

SetPeriod(c, w) == [c EXCEPT !.high = w.high, !.low = w.low]

\* Nothing happens to an enabled clock, nor to one without a high part.
Enable(c, t) ==
  IF c.enabled \/ c.high = 0 THEN c
  ELSE [c EXCEPT !.enabled = TRUE, !.waiting = FALSE, !.next = t + c.high,
                 !.value = 1]

Stopped(c) == [c EXCEPT !.enabled = FALSE, !.next = 0]

Disable_AtOnce(c) == IF c.enabled THEN Stopped(c) ELSE c

\* A clock that is high stops at its next falling edge.
Disable(c) ==
  IF ~c.enabled THEN c
  ELSE IF c.value = 0 THEN Stopped(c)
  ELSE [c EXCEPT !.waiting = TRUE]

IsDue(c, t) == c.enabled /\ c.next = t

\* A due clock toggles; one whose event is past stays as it is for good.
Eval(c, t) ==
  IF ~IsDue(c, t) THEN c
  ELSE IF c.value = 0 THEN [c EXCEPT !.value = 1, !.next = @ + c.high]
  ELSE IF c.waiting THEN [Stopped(c) EXCEPT !.waiting = FALSE, !.value = 0]
  ELSE [c EXCEPT !.value = 0, !.next = @ + c.low]

\* Constructed with a wave, low and enabled at time 0.
New(n, w) ==
  Enable([name |-> n, enabled |-> FALSE, waiting |-> FALSE, next |-> 0,
          value |-> 0, high |-> w.high, low |-> w.low], 0)

-----------------------------------------------------------------------------
(* VslClockMap                                                              *)

Before_Reversed(a, b) == a.enabled /\ a.next > b.next

\* operator<: it does not look at whether b is enabled.
Before(a, b) == a.enabled /\ a.next < b.next

\* std::list::sort.  Before is no strict weak order, so what the sort returns depends
\* on the algorithm; this is that of libstdc++.  A merge walks along the first list:
\* each clock of the second goes ahead of the first one it comes before among those
\* that are left.
Insert(merging, c) ==
  LET later == {i \in merging.from .. Len(merging.list) : Before(c, merging.list[i])}
      at == IF later = {} THEN Len(merging.list) + 1 ELSE Min(later)
  IN [list |-> InsertAt(merging.list, at, c), from |-> at + 1]

Merge(a, b) ==
  LET merged[n \in 0 .. Len(b)] ==
        IF n = 0 THEN [list |-> a, from |-> 1] ELSE Insert(merged[n - 1], b[n])
  IN merged[Len(b)].list

\* Single clocks are merged into runs of two, those into runs of four, and so on,
\* until there is one run.
Singles(list) == [i \in Nat |-> IF i < Len(list) THEN <<list[i + 1]>> ELSE <<>>]

Pairwise(runs) == [i \in Nat |-> Merge(runs[2 * i], runs[2 * i + 1])]

Sorted(list) ==
  LET runs[k \in 0 .. Len(list)] ==
        IF k = 0 THEN Singles(list) ELSE Pairwise(runs[k - 1])
  IN runs[Len(list)][0]

AddClock(list, c) == Sorted(<<c>> \o list)

get_clock(list, n) == list[CHOOSE i \in DOMAIN list : list[i].name = n]

\* A clock that is enabled, disabled or configured stays where it is in the list.
Put(list, c) == [i \in DOMAIN list |-> IF list[i].name = c.name THEN c ELSE list[i]]

HasNextEvent(list) == \E i \in DOMAIN list : list[i].enabled

NextEvent(list) == Head(list).next

FrontDue(list, t) == list # <<>> /\ IsDue(Head(list), t)

\* One pass of the loop of eval.
Round(list, t) == Sorted([list EXCEPT ![1] = Eval(@, t)])

\* The head is evaluated and the list sorted until the head is not due.  A clock
\* is due twice at most, when the configuration left it no high part.
EvalAll(list, t) ==
  LET round[n \in 0 .. 2 * Len(list)] ==
        IF n = 0 THEN list ELSE Round(round[n - 1], t)
      done == CHOOSE n \in 0 .. 2 * Len(list) :
                ~FrontDue(round[n], t) /\ \A m \in 0 .. n - 1 : FrontDue(round[m], t)
  IN Sorted(round[done])
=============================================================================
