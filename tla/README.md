# Verisocks in TLA+

Verisocks lets a TCP client drive an HDL simulation.  It exists twice: as a VPI
application that runs inside a host simulator (`src/src/verisocks.c` and the
`vs_vpi*.c` command handlers), and as a C++ class that runs a Verilated model itself
(`src/include/vsl/vsl_integ*.hpp`, `src/src/vsl_clocks.cpp`).  A Python class
(`src/python/verisocks/verisocks.py`) is the client.  This directory models the two
servers, the client, the framing of messages between them, and the values that they set and
get; it checks all of them with TLC, and proves with TLAPS most of what makes them safe.

## 1. The system

| Component | State it keeps | Operations | What is hard about it |
|---|---|---|---|
| VPI server state machine (`verisocks.c`) | `p_vpi_data`: state, two sockets, request, UUID, target value, callback handle | `verisocks_main` and its states, the callbacks `verisocks_cb`, `_cb_value_change`, `_cb_exit` | It gives the execution focus to the simulator and gets it back by callback; state outlives requests and connections |
| VPI commands (`vs_vpi.c`, `vs_vpi_run.c`, `vs_vpi_get.c`) | none of their own | `info get set run stop finish exit` | Each must leave the state, the callbacks and the replies consistent on every error path |
| TCP server (`vs_server.c`) | none | make, accept with time-out | The time-out races a late client |
| Framing (`vs_msg.c`) | none | read, write, compose, parse | Partial reads and writes, oversize messages |
| Verilator integration (`vsl_integ*.hpp`) | `_state`, sockets, request, UUID, the time or value callback, the model, the clock map | `run` and the `main_*` functions, the handlers | The simulation loop chooses the next time from three sources |
| Clocks (`vsl_clocks.*`) | per clock: period, high part, next event, enabled, waiting to disable; their sorted list | enable, disable, set_period, eval, add, next event | A list kept sorted lazily, changed in place |
| Variables (`vsl_types.*`, `vsl_utils.*`) | the model's variables | typed get and set, ranges of arrays | Index arithmetic |
| Python client (`verisocks.py`) | socket, receive state and buffer, transmit queue, expected replies, UUID | connect, send, write, read, close, flush | Time-outs and exceptions in the middle of a reply |
| Helpers, wizard, logging, cJSON | none | start a simulator, write files, text | none in the protocol |

Interactions.  A client sends framed requests; the server reads one at a time and replies
to each.  `run`, `stop`, `finish` and `exit` hand the focus to the simulator.  Of these only
`run` registers a callback; the callback (or the end of the simulation) writes the reply
of the run, under the UUID of the request that was stored when it was read.  In the Verilator
integration there is no host simulator: `main_sim` is the simulation, one iteration per time
step, and the "callbacks" are two flags it looks at.

What makes each component correct:

* VPI server: exactly one callback while a run is under way and none otherwise; one reply per
  message read, to its connection and under its UUID; a run is acknowledged when its condition
  holds; time stands still while Verisocks has the focus; every request is answered in the end.
* Verilator integration: the same, and no event of the model or of a clock is jumped over.
* Clocks: the head of the list is the next event; enabling and disabling are obeyed.
* Client: the count of expected replies is right; an answer is the answer to the request.
* Framing: what is sent is what is read, each message once, whole and in order, or the
  connection is lost for a reason; the read buffer is never overrun.
* Variables: no element outside an array is read or written, a get returns what its path names
  in the order in which a set puts it, and a set that is refused leaves no trace.

The hazards, each at its line, are the list `hazards` of `PROJECT.json`, with the properties
that would catch them.

## 2. Modules

| Module | What it is |
|---|---|
| `VsFocus` | Abstract specification: whose turn it is, whether a request is owed a reply, the time |
| `VsVpi` | VPI application, with simulator and clients as environment |
| `VsVpiFocus` | Refinement of `VsFocus` by `VsVpi` |
| `VsVpiInv` | Inductive invariant of `VsVpi` |
| `VsVpiProofs`, `VsVpiStepProofs` | Theorems about `VsVpi`: state; steps and refinement |
| `MCVsVpi` | Constants of its runs |
| `VsClocks` | Clock and clock map, as operators on records and sequences |
| `VsClocksProofs` | Induction over a clock list, and theorems about sorting and evaluating it |
| `VsInteg` | Verilator integration, which composes `VsClocks` |
| `VsIntegFocus` | Refinement of `VsFocus` by `VsInteg` |
| `MCVsInteg` | Constants of its runs |
| `VsIntegProofs` | Theorems about `VsInteg` |
| `VsClient`, `MCVsClient` | Python client, and the constants of its runs |
| `VsClientInv`, `VsClientProofs` | Inductive invariants of `VsClient`, and theorems |
| `VsMailbox` | Abstract specification: messages settled in order, each once and whole |
| `VsMsg`, `MCVsMsg` | Framing of one connection, byte position by byte position, and the constants of its run |
| `VsMsgInv`, `VsMsgProofs` | Inductive invariant of `VsMsg`, and theorems |
| `VsValues`, `MCVsValues` | Set and get of objects, arrays and ranges, and the constants of its run |
| `VsValuesProofs`, `VsValuesSetProofs` | Theorems about `VsValues`: types, bounds and get; set |

Names of state and operators are those of the source where TLA+ allows.

### VsVpi

One step is one pass of `verisocks_main` up to its next blocking call or its return: the step
that ends a handler includes what the main loop then does with the state (`Enter`, and
`FlyCatch` for a handler that leaves `PROCESSING`).  Each state of `verisocks_main` has its
actions (`MainConnect`, `ConnectFails`, `MainWaiting`, `ProcessCommand`), each group of
handlers one (`CmdInfo` ... `CmdExit`), each callback one.  `Cmd*` actions that differ from each
other only in the content of their reply share an action.

Requests are chosen when they are read: the model keeps only how many messages a connection
has unread.  A message may be of any kind in `AllKinds`, with or without UUID; `"bad"` is any
request that a handler refuses, `"notjson"` one that does not parse, `"toolong"` one that fills
the read buffer, which the code refuses without draining it (`torn`).  The watched signal has
a value that the simulator or `set` may change.  Times are whole steps and the `time` argument
comes in half steps, so that truncation is visible.  A time that is not a number passes both
comparisons of the run handlers, and its cast to an integer is undefined: `nan_time` is such a
request, and the time it is due is any from the present on.  History variables record messages read,
replies written, the last message and the last reply.

The simulator: a callback that is due fires before time moves on (`Due`, `Advance`); a signal
change or an event may happen at any time it has the focus; the design may end at any time and
must end at `MaxTime`; `vpi_control(vpiFinish)` ends the simulation later
(`SimFinishes`), with `cbEndOfSimulation`.  After `vpiStop` it is at its prompt until somebody
continues there (`Console`).

### VsClocks, VsInteg

A clock is a record of the fields of `VslClock` that are read; its wave is given in time steps
(high and low part) after the truncations of `set_period`.  The list is sorted by `operator<`
exactly as `std::list::sort` of libstdc++ does it (`Merge`, `Singles`, `Pairwise`: a merge sort,
from the runs of one clock upwards): this matters, because `operator<` is not a strict weak order,
and what comes out depends on the algorithm.  `EvalAll` is `VslClockMap::eval`: evaluate the clocks
at the head that are due, then sort.

One step of `VsInteg` is one function of the state machine, one handler, or one iteration of the
loop of `main_sim` or of the `exit` handler.  The model under test is a set of times at which it
has events pending, a watched variable, and a `$finish` that it may call in any evaluation and
must call from `MaxTime` on.  The testbench registers the clocks in any order.

### VsClient

The state of the class is kept field by field.  A reply is pre-header, header and content, each
of two pieces, and a `recv` takes any number of pieces: parts are cut, received together with the
next reply, and left over in the buffer.  `send` is one step up to its first `recv` (queue,
connect, write); each `recv` with the scan that follows it is one step.  After a failure the
application may do what `Recovery` allows: send again, read again, write what is queued, close,
flush.  The server answers in order, late or never, and may close the connection.  All replies
have the same length, and their content is not looked at.  A `recv` may time out whatever has
arrived, so that calls fail in the middle of a reply.  A `send` of the socket may raise too, also on a
connection that is up and after some of the requests queued have gone out (`WriteRaises`).

`hasty` records whether the application has ever hurried (`Hurries`): it sent a request while a
reply was expected on the connection, with a part of a reply from an earlier connection in hand,
or with another request queued.  A client that has not hurried is *patient*, and
`PatientClientIsRight` speaks of it, whatever else it does after a failure.  `lossy` records that
replies, requests or their lengths were dropped; `Uncounted`, the first fact about the client in
section 4, counts as both, and `ExpectedCounts` speaks of what has lost nothing.

### VsMailbox, VsMsg

`VsMailbox` says what a connection promises without bytes in motion: messages are settled in
the order in which they were sent, each once, from its own bytes, with the verdict its length
and type call for.  `VsMsg` has the bytes.  A byte is its position in the stream; what
`vs_msg_read` finds at a position is a pre-header, or a header, if a message starts there, and
anything else is content, whose two bytes read as a pre-header stand for some length, which may
fit the buffer (`JunkLengths`).  Lengths are the numbers of the C program: `content-length` is an int
that saturates (`valueint`), cast to `size_t`, added with a wrap, and the total is returned as an int
(`ToInt`); the system refuses a `read` of more than `SSIZE_MAX` bytes (`Refused`).  One step is one `read` of `readn`, one `write` of `vs_msg_write`, or what the code does
between two of them: `PreHeaderRead`, `HeaderRead`, `ContentRead` (which includes what
`verisocks_main_waiting` makes of the message) and `Return`.  The client sends, its bytes arrive
in any fragments, and it may hang up.  `VsVpi` and `VsInteg` read a message in one step; that
this is a sound abstraction of the framing is what `ImplementsMailbox` says.

### VsValues

An object is a thing that a simulator gives a handle to, or a variable that a testbench has
registered: an API, a shape (scalar, array, parameter, event, clock) and a format (integer, real,
or one that the code does not convert).  `set` and `get` take a path (`x`, `x[i]`, `x[l:r]`) and
answer at once for a single element; for more they loop, one step per element, with `mem_index`
as a `size_t` that wraps at `SizeTop`: a range written in ascending order is walked downwards,
past element 0.  Items are numbers in halves, so that the truncation to an integer shows, or
`NaN` for whatever is not a number; what a cast of NaN yields is undefined in C and any value in
the model.  Between two requests the design may change an element.

### Not modelled

* Formatting of values and replies, logging (`vs_logging.h`), `compiletf` argument checks: no
  state of the protocol.
* A header without `content-type`, or with a `uuid` that is not a string: `cJSON_GetStringValue`
  returns NULL, which `strcmp` (`vs_msg.c:410-413`) or `sscanf` (`vs_msg.c:403-405`) then reads.
  The simulator crashes, and nothing follows that a property could be about; the framing takes such
  a header as one that drops the client.
* Content that an oversize message leaves in the stream and that spells a whole header: what is
  left is a length, and then does not parse.
* A client that announces more content than it sends, or less: the server then waits, or reads out
  of step, as it does after an oversize message.
* The part of a request that a raising `send` of the client may have cut off: it counts as not sent.
* Making, binding and naming the server's socket (`vs_server.c`): calls of the operating system
  in a row.  Its `accept` with a time-out is part of `VsVpi` and `VsInteg`.
* The width of integers: a value larger than the variable is truncated by a C cast, as the width
  of the variable says.  The bits of a VPI value are data in the same way.
* `std::stoi` on an index that does not fit an `int`: it throws, and the handler does not catch.
* The tables of time units and the texts of `get(sim_info)`: constants.
* cJSON (third party): headers and contents are records that parse or do not.
* The Python helpers (`utils.py`: search for a port, start of a process) and the wizard (a
  generator of files), tests, examples and build files: no part of the protocol.

### Assumptions

* `$verisocks_init` is called at time 0; the design has a horizon and no zero-delay loop.
* A failed write of a reply is ignored, as every caller does; the SIGPIPE that a second write to
  a reset connection raises is up to the host simulator.
* Clocks are registered with a valid period and duty cycle: otherwise their period fields are
  uninitialised.
* For a model without pending events, Verilator's `nextTimeSlot` is taken as later than every
  clock.
* `std::string(cstr)` in the Verilator handlers comes before the check for NULL: the model has
  only requests whose string fields are strings.
* `cycles_counter`, `prev_event_time` and `finish_time` are written and never read: left out.
* A closed socket may still accept one write, which is lost; `sock.connect` may be refused.
* The server's socket blocks, so that a `read` of `readn` returns at least one byte, or nothing
  at the end of the stream.
* An event of Verilator is triggered by a set and left triggered: the evaluation that follows is
  not part of `VsValues`.

## 3. Runs

| Run | Configuration | Shows |
|---|---|---|
| `vpi_safety` | 2 connections, 2 requests each, every kind, time 0..2 | Type, callbacks, descriptors, ledger, UUIDs, honest acknowledgements, frozen time; every message read is answered in the end; `VsVpi` implements `VsFocus` |
| `vpi_stop` | 2 connections, 1 request each | Violation of `StopGivesFocus` |
| `vsl_safety` | 1 clock, 2 waves, design with delays, 3 requests of every kind, time 0..4 | The same properties for the Verilator integration, and no event skipped |
| `vsl_two_clocks` | 2 clocks of different waves, 3 requests of every kind, time 0..5 | No event skipped with two clocks, whichever is disabled |
| `vsl_order` | 2 clocks, one disabled | Violation of `DisabledAtBack` |
| `vsl_enable` | 1 clock, enabled, disabled, enabled | Violation of `EnableObeyed` |
| `vsl_exit` | 1 clock, `exit` | Violation of `ExitRunsToEnd` |
| `client` | 3 requests, 6 calls, 2 trials per read, every recovery | The count of expected replies, answers of a patient client |
| `client_uuid` | 3 requests, send again after a failure | Violation of `UuidVerified` |
| `client_timeout` | 1 request with its own time-out | Violation of `TimeoutRestored` |
| `framing` | 2 messages of 9 lengths and types, a buffer of 8 bytes, an int up to 10, 2 trials, every cut | The buffer is never overrun, replies are whole, losses have reasons, every message is settled in the end; `VsMsg` implements `VsMailbox` |
| `values` | arrays of 3 elements, indices up to 3, lists of up to 4 items, `size_t` up to 7 | Bounds, the slices of get and set, refusals without traces, every loop ends |

Bounds.  Two connections are the least with which a stale descriptor, a stale UUID or a reply to
the wrong client can be seen: the server holds one, and the other waits in the backlog.  Two
requests per connection let a request meet the state that an earlier one has left.  Three
requests to the Verilator integration are needed to disable a clock and enable it again during
its high part.  The times are the least that hold a truncated, a present and a future
condition, a whole clock cycle, and the horizon after them.  Three requests of the client are
the late one, the mismatching one and the next; the wrong answers of section 4 take six calls
at most, which is the bound.  The nine messages of `framing` are the longest that fits, one that
just fills the buffer, one that leaves a byte behind, one whose header alone does not fit,
two that fit but are no commands (one of them empty), one too long for an int, and two with a negative
length: with -1 the total wraps to one that fits, with -5 it does not.  The second message shows what
the first has left in the stream, where two bytes of content may be a header length that fits (2)
or one that does not (9).
In `values` three elements are the least that have a middle, indices go one beyond the array and
lists one beyond every range, and `SizeTop` only has to lie beyond the array.  Deadlock is not checked because the server, the
simulation and the client end or may wait for ever for the environment.

Fairness (`FairSpec`).  In `VsVpi`: weak fairness of `ProcessCommand` (the main loop does not
pause once it has a command), of the simulator's steps `Advance`, `Horizon` and `SimFinishes`,
and of `verisocks_cb`: a simulator that has the focus keeps going, and calls the callbacks that
are due.  Clients have none: a client may stay silent for ever, and the property only speaks of
messages read.  Signal changes and events have none: they need not come, and the run is then
answered by the end of the simulation.  In `VsInteg`: weak fairness of `main_process` and of
`main_sim`, whose loop has no blocking call.  In `VsMsg`: weak fairness of `Arrive` (TCP delivers
what has been sent) and of `Server`, which only waits for bytes.  In `VsValues`: weak fairness of
`Loop`, which calls nothing that waits.

Each property has a mutant in `PROJECT.json`: a definition of the model changed as a plausible
bug would change the code, under which TLC finds the property violated.  The mutated forms stand
beside the definitions, named `Definition_Mutation`.

## 4. What the runs found

* **`stop` (VPI)** acknowledges, calls `vpi_control(vpiStop)` and returns without any
  callback: Verisocks never reads another request, whatever the user does at the simulator's
  prompt.  `tcp_protocol.rst:195` and `architecture.rst:90` say that the focus goes to
  Verisocks.  The Verilator `stop` does keep it.
* **`operator<` of clocks** does not put disabled clocks last when they are on the right-hand side.
  With two clocks a disabled one can stay at the head of the list; its next event is 0, so
  simulation time is set back to 0, and the loop never ends.  No event is skipped even then with up
  to three clocks, as `vsl_two_clocks` and the theorem `NoEventSkipped` show: the enabled clocks keep
  their order.  With four that is no longer so: the merge sort of clocks with events at 10, 6, none
  (disabled) and 7 merges 6, 10 with the pair that begins with the disabled clock, and returns
  6, 10, disabled, 7: after the event at 6, time goes past 7.  With one clock, or with none
  disabled, the whole list is right (`TimeGoesForward`).
* **`enable` of a clock that waits to be disabled** does nothing, and the clock stops at its
  falling edge although enabling it was acknowledged.
* **`exit` (Verilator)** runs the model's own events only, and ends the simulation with clock
  events pending and without `$finish`.
* **UUID mismatch (client)**: the receive state moves on before the check, so the exception is
  raised once and the next call returns the content of the refused reply, unchecked, as its own.
  A refused connection is enough to get there: the request stays queued and the next `send`
  transmits both.
* **Time-out of one call (client)** stays on the socket when that call fails.

Facts that the models show and that are not runs of their own.  Where a property would not hold
because of one of them, its statement excepts that case by name.

Client:

* `write(all=False)` pops the length of a message (`verisocks.py:408`) before it writes it.  If the
  write raises, the message stays queued without a length; a later `write` sends it and does not
  count its reply, and the answer to the next request is the reply to this one.  It takes six
  calls.  Both properties of the client except it (`Uncounted`).
* A client that closes with part of a reply in hand, and sends on a new connection, may get the
  reply to the earlier request: nothing resets `_rx_state` and `_rx_buffer`.  Such a client has
  hurried too.
* `read` that has run out of trials leaves the state `ERROR`, which nothing resets: no later call
  returns an answer, also on a new connection.

Values:

* A set of a range does not compare the length of the list with the range, which
  `tcp_protocol.rst:390-393` asks for: further items are written outside the range, and the set is
  acknowledged, or refused half done when they run out of the array.  Fewer items are
  acknowledged.  `SetIsSlice` and `RefusedLeavesAlone` speak of lists that are covered.
* A single number for a range of several elements writes nothing and is acknowledged.
* A set of the whole of a Verilator array whose type is not converted writes nothing and is
  acknowledged: `set_array_variable_value` ignores the result of `set_array_value`.  A get of it
  returns zeros.
* A VPI set of a parameter is acknowledged, and the simulator leaves the parameter as it is.
* A Verilator set of a scalar or an event without `value` writes 0, or fires the event, and is
  acknowledged; the VPI application refuses it for a scalar.
* An item that is not a number is NaN, and its cast to an integer is undefined behaviour.
* Clocks are neither set nor got as values, and `until_change` on an array or a clock never fires
  (`vsl_integ.hpp:814-832`).

Framing:

* `vs_msg.h` says that a read of more than the buffer returns -1; the code returns the length of
  the message, and its callers rely on it.  The rest of the message is not drained, although the
  comment at `verisocks.c:571` speaks of discarding it: what follows is read out of step, and the
  connection is lost at the next message.  `LossHasReason` names this reason (`Overflowed`).
* The two bytes that follow a message that overflowed are taken for a header length.  Where they
  stand for one that fits (a newline and a space are 2592), the server waits for that many
  bytes, with the next message before it, and the client waits for a reply: for good, if it sends
  no more.  `EveryMessageSettled` excepts it (`Misled`).
* `content-length` is signed.  From -1 down to minus the length of pre-header and header, the total of
  `vs_msg_read` wraps to at most the length of these two, nothing is truncated
  (`vs_msg.c:662-664`), and `read` is asked for nearly 2^64 bytes into the rest of the buffer.  It is the system that refuses a length beyond `SSIZE_MAX`; `BufferHolds`
  holds because of that check and not because of one in the code.  Other negative lengths are
  truncated to the room in the buffer, and the server waits for content that was not announced
  (`Misled`).
* A `content-length` near `INT_MAX` makes `vs_msg_read` return a negative int (`vs_msg.c:674`): the
  client is dropped without the reply that a message which is too long gets.  `LossHasReason`
  names it (`Unreadable`).
* `vs_msg_return` is documented to return 0 if successful; it also does after a short write that
  has used up its trials.  `RepliesWhole` names this case.

## 5. Theorems

All hold for every value of the constants, under the assumption of the module they are about:

* `ConstantsAssumption` (`VsVpi`): the special values are not connections, UUIDs or callbacks;
  times and values are naturals with 0 among the values.
* `FramingAssumption` (`VsMsg`): the buffer holds at least a pre-header and a byte, its size is an
  int, and an int is no longer than `ssize_t`; a message has a header of at least a byte, whose length
  fits its two bytes, and announces any content-length, also a negative one; two bytes of content
  stand for any length.
* `ValuesAssumption` (`VsValues`): an array has an element and fewer than `size_t` has values; values
  are lists of numbers or NaN.
* `ClocksAssumption` (`VsClocks`): there are finitely many clocks, and the low part of a wave is at
  least one time step.  `set_period` refuses a duty cycle of 1, so the high part is less than the
  period; the product of doubles rounds to less than the period as long as that is below 2^53.
* `IntegAssumption` (`VsInteg`): the special values are not clocks or UUIDs; times and values are
  naturals with 0 among the values, and a design has finitely many delays, of a time step or more.

The proofs about `VsClient` use no assumption about the constants, not even `ClientAssumption`, which
only says what they stand for.  Two theorems about `VsInteg` have a
hypothesis, `NeverOvertaken`: there is at most one clock, or no wave lacks a high part and there is
no request to disable a clock.  It is what the properties need: with two clocks of which one is
disabled TLC finds `TimeForward` and `ImplementsFocus` violated, for the reason that the run
`vsl_order` shows.  `NoEventSkipped` supposes three clocks at most, or `NeverOvertaken`, for the reason
that section 4 gives.  The other theorems about `VsInteg` have no hypothesis.

| Module | Theorem | Statement |
|---|---|---|
| `VsVpiProofs` | `TypeCorrect` | `Spec => []TypeOK` |
| `VsVpiProofs` | `CallbacksDisciplined` | `Spec => []CallbackDiscipline` |
| `VsVpiProofs` | `DescriptorNeverStale` | `Spec => []NoStaleDescriptor` |
| `VsVpiProofs` | `LedgerBalances` | `Spec => []Ledger` |
| `VsVpiProofs` | `RepliesMatch` | `Spec => []ReplyCarriesUuid` |
| `VsVpiStepProofs` | `TimeIsFrozen` | `Spec => TimeFrozen` |
| `VsVpiStepProofs` | `AcksAreHonest` | `Spec => AckIsHonest` |
| `VsVpiStepProofs` | `FocusImplemented` | `Spec => ImplementsFocus` |
| `VsIntegProofs` | `RunsHaveOneCallback` | `Spec => []OneCallback` |
| `VsIntegProofs` | `LedgerBalances` | `Spec => []Ledger` |
| `VsIntegProofs` | `UuidsMatch` | `Spec => []ReplyCarriesUuid` |
| `VsIntegProofs` | `TypeCorrect` | `Spec => []TypeOK` |
| `VsIntegProofs` | `DisabledClocksStop` | `Spec => []DisableObeyed` |
| `VsIntegProofs` | `AcksAreHonest` | `Spec => AckIsHonest` |
| `VsIntegProofs` | `NoEventSkipped` | At most three clocks or `NeverOvertaken`, hence `Spec => []NothingSkipped` |
| `VsIntegProofs` | `TimeGoesForward` | `NeverOvertaken`, hence `Spec => TimeForward` |
| `VsIntegProofs` | `FocusImplemented` | `NeverOvertaken`, hence `Spec => ImplementsFocus` |
| `VsClocksProofs` | `SortKeeps` | Sorting keeps the clocks and their number |
| `VsClocksProofs` | `SortOrders` | Sorting puts the enabled clocks in the order of their events, when there are three clocks at most or all are enabled |
| `VsClocksProofs` | `EvalAllIs` | An evaluation ends after at most two rounds per clock |
| `VsClocksProofs` | `EvalAllPasses` | When no clock can be overtaken, an evaluation leaves no event behind it |
| `VsMsgProofs` | `TypeCorrect` | `Spec => []TypeOK` |
| `VsMsgProofs` | `BufferNeverOverrun` | `Spec => []BufferHolds` |
| `VsMsgProofs` | `RepliesAreWhole` | `Spec => []RepliesWhole` |
| `VsMsgProofs` | `LossesHaveReasons` | `Spec => []LossHasReason` |
| `VsMsgProofs` | `MailboxImplemented` | `Spec => ImplementsMailbox` |
| `VsValuesProofs` | `TypeCorrect` | `Spec => []TypeOK` |
| `VsValuesProofs` | `StaysInBounds` | `Spec => []InBounds` |
| `VsValuesProofs` | `GetsSlices` | `Spec => []GetIsSlice` |
| `VsValuesSetProofs` | `SetsSlices` | `Spec => []SetIsSlice` |
| `VsValuesSetProofs` | `RefusalsLeaveAlone` | `Spec => []RefusedLeavesAlone` |
| `VsClientProofs` | `TypeCorrect` | `Spec => []TypeOK` |
| `VsClientProofs` | `PatienceRewarded` | `Spec => []PatientClientIsRight` |
| `VsClientProofs` | `RepliesCounted` | `Spec => []ExpectedCounts` |

### VPI application

`TypeOK` is inductive by itself, once it includes that the descriptor and the
request are there when they are used.  The other properties are not inductive: that a callback is
answered to the right client, say, depends on the callback being the one of the request in hand.
`IInv` (`VsVpiInv`) adds what they lean on:

* `SimPhase`: how the phase of the simulator and the state of the server go together (Verisocks
  has the focus only when the simulator is blocked, it finishes only for a server that has left);
* `CallbackShape`: the callbacks registered are exactly the one that the request in hand asks
  for, with its target and a time that has not passed;
* `BacklogFresh`: queued connections are distinct and not served yet, so that a new descriptor is
  never one that has been dropped;
* `UuidOfRequest`: the stored UUID is that of the request in hand until its run is over.

The proofs take the conjuncts one by one over the actions of `Next`; the action properties and
the refinement use `IInv` in the state before the step.

### Clocks

The sort and the evaluation of a clock map are recursions over a list of any length.  The
library's induction theorems cannot be instantiated by the provers, but that every non-empty set of
naturals has a least element can be cited, and from it `VsClocksProofs` proves the induction it
needs (`Least`, `Induction`): for each recursive function, that it exists and is the one
that the definition chooses (`Recursion`, `OneRecursion`), and so what sorting a list does pass by
pass (`SortedIs`).  A merge that steps over no clock it should stop at keeps the order: where all
clocks are enabled, the merge of two lists in order is in order.  A disabled clock has no event
(`IdleAtZero`), comes before nothing, and nothing comes behind it for its own sake; up to three
clocks, one of the two lists of every merge is a single clock, and then no enabled clock
moves past another (`EnabledInOrder`).

`EvalAll` is defined by choice among the functions that obey its recursion: that the loop of
`VslClockMap::eval` ends is part of what is proved.  Each round takes a toggle out of a finite set of
those to come (`Pending`: two for a clock that is due and low, one for one that is high), and a
clock that has fallen is not due again, its low part being at least one time step.  After at most two rounds
per clock none is due at the head (`EvalAllIs`).

For four clocks or more of which some are disabled `SortOrders` would be false, as section 4 shows,
and its hypothesis excludes them.  `SortKeeps`, `EvalAllIs` and `DisabledClocksStop` hold for lists of
any length.

### Verilator integration

Every step of the state machine is one of a few kinds: for the callbacks, the ledger and the UUIDs
`Quiet`, `Reads`, `Handles`, `Replies`, `Starts` and `Stops`, for model and clocks `Still`, `Switches`,
`Evals`, `Goes`, `Arrives` and `Leaps`.  Each conjunct of the invariant is preserved kind by kind:

* `Control`, `OneCallback`, `Ledger`, `UuidKept`: what the state machine holds;
* `Typed`: the types, and that the clock map is complete (`Complete`: each clock once);
* `ClockInv`: each clock is disabled, waiting to be, or neither, as the last request about it asked,
  and is idle at 0 when disabled: hence `DisableObeyed`;
* `RunInv`: while a run is under way its target lies ahead, or has just come: hence `AckIsHonest`;
* `NothingSkipped` and `EnabledInOrder`: `next_event_time` is the least of the model's next event and
  the next event of the clock at the head, which is no later than any enabled clock's;
* `InOrder`, under `NeverOvertaken`: the whole list is sorted, so that the head has an event that has
  not passed: hence `TimeForward`, and the steps of time of the abstract focus.

### Framing

`VsMsgInv` says where the messages lie in the stream (`Layout`), how much of the message in hand
has been read (`Reading`), and where the server is (`Position`): at the start of the first message
that is not settled as long as the stream is in step (`InStep`), and inside the last one settled
after an overflow.  The latter is why a header that the server reads then does not parse: no message
starts there.  A content that is read has a length that is not negative (`OnlyCountable`), and so
the total that decides the truncation has not wrapped.
The refinement follows: `ContentRead` is `Settle`, the steps that drop the client are `Close`, and
all others stutter.

### Values

While a get loops, what has been collected is the beginning of the slice and the index is at its
next element, or one beyond its end, where the loop stops (`Collected`); the design does not run
meanwhile.  While a set loops, the items taken are in their places and nothing else has changed
(`Landed`), as long as there are no more items than elements (`Putting`).  The arithmetic of the
walk (`At`, `Width`, the wrap at both ends of `size_t`) is a set of lemmas of its own.

### Client

`VsClientInv`: as long as the client has been patient, everything under way belongs to its last
request (`OneRequest`): it is queued, or asked, or its reply is on the wire or in the buffer, and
the piece that completes the reply comes last; and the client expects a reply when there is one
to come (`Expected`).  The proof follows the buffer through the three stages of the receive state
machine and every way in which a call may end.

For the count of replies (`CInv`): what is in the buffer followed by what is on the wire is whole
replies, but for the parts that the receive state machine has taken already (`InStep`), a request queued
has a length, and the count is that of the requests asked and the contents under way (`Balanced`),
as long as nothing was dropped.  `InStep` is why a part that is taken is the part that is
due: a pre-header or header takes no content off the stream, and a content takes one off stream and
count alike.  Contents are counted as the cardinality of a set of positions, which is
additive over streams (`ContentsJoin`).

### Only model-checked

Liveness under fairness (`EveryRequestAnswered` of both servers and of the values,
`EveryMessageSettled`): not in the prover's reach.  Every invariant and every action property that a
passing run checks is a theorem.  `TimeForward` and `ImplementsFocus` of `VsInteg` are theorems under
`NeverOvertaken`, and `NothingSkipped` for three clocks or under it.

Every inductive invariant was checked by TLC before it was proved.

## 6. Running it

    tlasany VsVpi.tla
    tlc -workers 2 -config VsVpi.cfg MCVsVpi.tla
    tlapm VsVpiProofs.tla

## 7. Plan

Done, in this order:

1. `VsFocus`, `VsVpi`, `VsVpiFocus` and the proofs: the focus is what Verisocks is about.
2. `VsClocks`, `VsInteg`, `VsIntegFocus`: the second server, against the same abstraction.
3. `VsClient`: the receive state machine.
4. `VsMailbox`, `VsMsg` and the proofs: the framing, with partial reads and writes.
5. `VsValues` and the proofs: objects, arrays and ranges, for both servers.
6. Proofs about `VsInteg` that need nothing of the clock list, and about `VsClient`.
7. `VsClocksProofs`: the clock list of any length; then types, honest acknowledgements, disabled
   clocks, events, time and the refinement of `VsFocus` for `VsInteg`, and the count of replies for
   `VsClient`.

Left:

* The client composed with a server and the framing: an answer is never attributed to another
  request when calls do not fail.  Each side is checked against an environment that does at
  least what the other does.
* A request of the client that is cut on its way, in the composition of client and framing.
