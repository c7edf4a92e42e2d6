# SmartPlugFirmware in TLA+

Models, model-checking runs and proofs for the firmware in `src/`: a Particle
Photon that switches a mains socket, on request from the Particle cloud, from a
TCP client in the local network, or from its own timers.

## 1. The system

The firmware has no tests and a three-line README; the reference is the code.

| Component | State | Operations | Runs on |
|---|---|---|---|
| Device control (`device_control.cpp`) | the pin D7, one-shot timers `t_switch_on`, `t_switch_of`, `on_off_mutex` | `f_switch_on/off` (delayed or at once), `switch_on/off`, `f_is_switch_on` | caller's thread, timer thread |
| Automatic times (`auto_off_on.cpp`) | `auto_on_time`, `auto_off_time` in RAM and EEPROM, timers `t_auto_on`, `t_auto_off`, two mutexes | `f_auto_on/off`, `persist_*`, `load_*`, `start_*`, `stop_*` | caller's thread, timer thread |
| TCP command server (`voodoospark.cpp`) | the client, a 128-byte buffer, the time of the last keepalive | `_loop` once a second, `processInput` | timer thread |
| Alarm rules (`alarm_rules.cpp`) | mask of slots, pointers to allocated alarms, EEPROM copies | `f_create_alarm`, `f_delete_alarm` | application thread |
| mDNS responder (`MDNS.cpp`, `Label.cpp`, `Record.cpp`, `Buffer.cpp`) | names, records with answer flags, one packet buffer | `processQueries` every 100 ms | timer thread |
| Soft-AP button (`soft_ap_button.cpp`) | time of the last press | interrupt handler | interrupt; not started by `setup()` |
| Setup (`smart_plug.ino`) | - | `setup()`; `loop()` is empty | application thread |
| Logger (`logger.h`) | - | included nowhere | - |

**Interaction.** The cloud calls `f_switch_on`, `f_switch_off`, `f_auto_on`,
`f_auto_off`, `f_create_alarm`, `f_delete_alarm` on the application thread. The
TCP server calls the first four on the timer thread, where every Timer callback
runs, one at a time: `switch_on`, `switch_off`, `_loop`, the mDNS poll.
`device_control.cpp` and `auto_off_on.cpp` call each other: a switch stops and
starts the automatic timers, and an automatic timer switches.

**What is hard.** Two threads go through the calls with three mutexes, none of
which covers the pin and the times together; timers expire while they are being
stopped; a reset can come between two writes; integers are 8 and 16 bits wide;
the byte stream of a client is cut anywhere; `errno` is tested and never
cleared. `PROJECT.json` lists each hazard with its line.

**What makes each component correct.** Device control: a call leaves at most
the delayed switch it asked for, waits as long as it was told, and always
returns. Automatic times: the right timer is pending, the plug really switches,
0 means never, RAM and EEPROM agree. TCP server: every byte is executed once,
in order, by the session it belongs to, and no session blocks the server for
ever. Alarm rules: mask, pointers and EEPROM agree, results are true, rules in
the documented form are accepted. mDNS: every question is answered by the
records it names, once, with names that decode to themselves.

## 2. Modules

| Module | Content |
|---|---|
| `RequestText` | what the calls make of a `String`: `strtol`, casts, return codes |
| `SmartPlug` | device control and automatic times, two threads, timer service, resets |
| `SmartPlugProperties` | its properties |
| `SmartPlugProofs` | its inductive invariant and theorems |
| `Socket` | what the user is promised of the plug (abstract) |
| `SmartPlugRefinement` | the proof that `SmartPlug` implements `Socket` |
| `MCSmartPlug` | arguments for TLC |
| `Voodoo`, `VoodooProperties`, `VoodooProofs`, `MCVoodoo` | the TCP command server, likewise |
| `CommandStream` | what a client sees of the server (abstract); `Voodoo` implements it |
| `PlugSystem`, `PlugSystemProperties`, `PlugSystemProofs`, `MCPlugSystem` | the plug and the server together |
| `AlarmRules`, `AlarmRulesProperties`, `AlarmRulesProofs`, `MCAlarmRules` | the alarm store |
| `MdnsResponder`, `MdnsResponderProperties`, `MCMdnsResponder` | the mDNS responder |
| `MdnsNamesProofs` | lemmas: names, their sizes, how they are written and read back |
| `MdnsResponderProofs` | its inductive invariant and theorems |
| `LeastNumber` | the lemma that takes the place of induction over data in the proofs |

A definition called a *wrong variant* in a comment is a plausible bug of the
definition below it. Nothing uses it; `PROJECT.json` pairs it with the property
that finds it when it takes the place of the right one.

### 2.1 RequestText

A text is a record: were digits found, which `long` does `strtol` return, does
it set `errno`. `Seconds` and `DelayMs` cast to `uint16_t` and multiply there,
`Minutes` casts to `uint8_t`, `Result` makes the tests of the four functions in
their order. The widths are constants, so that a run may have a byte of three
values and the proofs hold for every width.

### 2.2 SmartPlug

A direction `d` ("on", "off") names a pin level, and with it the timers and
calls that lead there: `t_auto["off"]` is `t_auto_off`, `auto_time["on"]` is
`auto_on_time`. `on` and `off` code is the same but for the direction; where it
is not, it is in one place: `StoppedTimer`, because `stop_auto_on()` stops
`t_auto_off` as `stop_auto_off()` does.

A call is executed in steps, `pc[t]` of thread `t` says which comes next:

    f_switch_*   SwitchRequest -> arm                      (delay > 0)
                 SwitchRequest -> lock ...                 (delay = 0)
    switch_*     lock -> write -> stop -> lockAuto -> startAuto -> unlock
    f_auto_*     AutoRequest -> lockPersist -> put -> set -> check
                    -> lockAuto -> startAuto               (level asks for it)

Each lock, pin, EEPROM or timer access that another thread could notice is a
step. The locals of a call are `arms[t]`, the automatic timer it is about, and
`arg[t]`, its number; both are reset when it returns. `Fire` starts a timer's
callback on the timer thread; the timer is no longer pending then, so a `stop()`
that comes too late stops nothing. `t_auto` counts minutes, with `Tick` for a
minute; `t_switch` holds a delay of at most 65535 ms, which may end before or
after the next minute. `Reboot` is possible in every state and does what
`setup()` does, in its order: `switch_off()` before the times are loaded.
`fresh` is a history variable for the one exception in `AutoArmed`.

External: the timer service, EEPROM, mutexes and `strtol`, as the code uses
them. `changePeriod` starts a timer, an EEPROM never written holds 16#FF, a
`std::mutex` is not recursive, `errno` belongs to a thread.

### 2.3 Voodoo

`_loop` is `PollAccept`, `PollExpire` or `PollRead`, by its tests. `processInput`
calls itself at its end, so one activation is one step, `ProcessNothing` or
`ProcessCommand`, followed by `CallReturns` where the command calls the plug.
The client writes whole segments; `_loop` reads what its loop bound allows:
`Room`, half of what is free, because the bound shrinks while the index grows.
`hasAction` and `bytesExpecting` are false and 0 between activations and are no
variables. The byte table has eleven entries while codes up to 14 are accepted:
the constant `PastTable` is what lies behind it. `sent`, `consumed`, `quietFor`
and `sinceLoop` are history variables. `silence` stands for
`Time.local() - lastKeepaliveTime` and stops at the timeout. `Second` is the
clock: a second of `Time.local()` passes in any state, while `_loop` is due,
waits in one of its calls, or works. The 1000 ms of `t_voodootimer` are not tied
to these seconds: its thread has other callbacks to run, and `Time.local()` cuts
off fractions, so that `_loop` runs once, often or never between two of them.
`sinceLoop` counts the seconds since it last began. `Reset`, possible
in every state, is a loss of power: connection, buffer and the command in
progress are gone.

### 2.4 AlarmRules

Both functions run on the application thread and nothing else touches the
store, so a call is one step. A rule is a record of what the code reads: the
number at its start (every time field is parsed from there), how many fields
end with a colon, which are `*`, the days, the action. Memory is a set of
blocks; `malloc` returns any free one or none. The paths that refuse a rule
free its block, but for a wrong action (`LoseAlarm`). `Reboot` clears mask,
pointers and memory and leaves the EEPROM.

### 2.5 The abstract specifications

`Socket` has a level, two stored times, the levels an automatic switch is
planned to (`planned`) and those it is going to (`asked`). The relay goes to a
level only if that was asked for, at once or later, or was planned while its
stored time was not 0. The mapping (`SmartPlugProperties!Plug`): `level` is the
pin, `time` the EEPROM, `planned` the pending automatic timers, `asked` the
pending one-shot timers and the calls that have not written the pin yet. What
makes it worth showing is that the code tests the copy of the time in RAM.

`CommandStream` has the bytes of a session, how many were executed, whether a
call is in progress and how many answers were given. `VoodooProperties!Server`
maps them to `sent`, `Len(consumed)`, `pc = "call"` and `acks`; buffer, partial
reads, seconds and the limits of `_loop` disappear in it.

### 2.6 PlugSystem

The firmware as `setup()` leaves it: `SmartPlug` and an instance of `Voodoo`
whose `pc` is the variable `loop`. They share the timer thread: `_loop` starts
only when no callback runs there (`RunLoop`), a timer expires only when `_loop`
is not running (`RunTimer`), and where `Voodoo` lets a call return what it
likes, `StartCall` enters one of `SmartPlug`'s calls on that thread, with the
operands in `cached` as its argument (`Delay`: two bytes to a `uint16_t`, to
text, and back through `strtol`), and `EndCall` answers by its result when the
thread comes out of it. In between `_loop` may wait for a mutex that a cloud
call has. `Environment` (network, seconds), `CloudCall`, `Minute` and
`PowerLoss`, which hits both halves at once, go on all the time.

### 2.7 MdnsResponder

A label is the object it is in the code, linked to the next one of its name by
`Chain`; names share labels (all end in `LOCAL_NAME`, `ROOT`), and with them
the `writeOffset` that `Label::write` leaves there for compression. A record is
its kind and the call of `addService` it stems from; `records` is the vector,
`RecordsOf` what a call appends to it, and the flags are the sets
`answer` and `additional`. `processQueries` is taken apart into `Receive`, one
`MatchQuestion` per question, `WriteHeader`, one `WriteNext` per record,
`EndSection` and `Reset`.

What is read is a sequence of cells: a label (size and text at once, in the
letter case of the host or in another), the root, a pointer to an earlier cell,
the type and class of a question. `NameRead` is what `Label::Reader` returns,
through pointers to pointers; `AfterName` is where `Buffer::reset` goes back
to, the mark behind the first pointer; `Equal` and `Matches` are the iterators,
of which only that of an instance looks at the case. A packet is a record: its
`cells`, the `questions` its sender meant, where each starts, the name that
begins at each cell, and the header's `qdcount`. `WellWritten` says how they
belong together (RFC 1035, 4.1): a pointer leads to an earlier cell and stands
for the name there. The model reads the cells only; the rest is kept in `asked`,
so that `AnswersAsked` compares the answers with the meaning and not with what
was read. `MCMdnsResponder` writes packets, with every choice of suffixes
replaced by pointers, and TLC finds `WellWritten` true of all of them.

What is written is seen by what starts where: `image` maps offsets to labels
and pointers, `entries` records the place and length of each record. Instances
are told apart by their call, so a name added twice is two labels of which the
map keeps the second.

## 3. Runs

| Run | Shows | Bounds |
|---|---|---|
| `plug_safety` | `TypeOK`, `AutoArmed`, `PersistAgrees`, `IsSocket`, requests from both threads | bytes 0..2, at most 1 minute; arguments 0 and 67 (1 minute, 1464 ms) |
| `plug_calls` | `OneShotExclusive`, `CallsReturn`, `AutoOffHappens`, requests from the cloud, timers on the timer thread | bytes 0..1; also an argument out of range |
| `voodoo_stream` | `TypeOK`, `StreamIntegrity`, `InStep`, `ServesCommands`, `StuckSessionEnds` | buffer of 4, timeout 2 s, 5 bytes, 2 sessions |
| `voodoo_keepalive` | `LiveClientKept` for keepalives less than 13 s apart and a `_loop` at most 2 s late | real buffer and timeout, 6 bytes, 2 sessions |
| `alarm_slots` | `SlotsAgree`, `PointersOwn`, `CreateTruthful` | 2 slots as in the code, 4 blocks, 7 rules, 6 indexes and `*` |
| `mdns_responses` | `TypeOK`, `AnswersAsked`, `PacketComplete`, `NamesDecode`, `LengthsTrue` | at most 2 calls of `addService`, 2 instances of one service, one subservice; all packets of at most 2 questions with compressed names (5 names and 6 types, 2 unknown names, another letter case), plain and 3-question packets over the names, one after the other |
| `system` | `AcksTrue`, `LoopReturns` | one session of 3 bytes out of 5 segments, cloud arguments 0 and an overlong number, bytes of the times 0..1, timeout 1 s |
| `plug_delay`, `plug_never`, `plug_auto_on`, `voodoo_leftover`, `alarm_form` | what the code does against a comment, see section 5 | real widths and limits, but for `plug_auto_on` |

**Why the bounds are enough.** The plug has two threads and two directions, and
neither is bounded. What bounds it are the values of a byte: 0 (never), a time
in range, and, with three values, the erased EEPROM's time beyond the range;
larger times only tick longer. For the server a buffer of four bytes already
holds a full command and a piece of the next, or fills up; two sessions are
enough for bytes of one to meet the other; a timeout of 2 s lets it expire with
a half-received command. `voodoo_keepalive` uses the code's own numbers because
its property is about them; 13 and 2 (`Patience`, `Lateness`) make up the 15 of
the timeout, and the property fails if either is one more. Four blocks are two
more than slots: two can be lost before memory runs out. For mDNS what one
packet leaves behind meets every next packet, so two questions at a time go a
long way; two instances share the labels of their service, three questions make
a pointer that leads to a pointer, and the texts are long enough for the
fullest packets not to fit in 512 bytes (`NamesDecode`, `LengthsTrue` and what
`PacketComplete` says of the packet's content are about those that do). In
`system` three bytes are one command with operands, or three without, or a
command cut in two; the delays are the real ones, with 54016 s, which is
refused, and 66 s, which is not; one session is enough because `voodoo_stream`
has the others. The theorems of section 4 remove the bounds for every safety
property of these runs.

**Deadlock** is checked in all runs.

**Fairness.** `SmartPlug!Fairness`: a thread goes on with its call (weak
fairness of `Working`); a waiting thread gets a mutex that is freed again and
again (strong fairness of `Locking`; the waiters of a FreeRTOS mutex are
queued); the timer service looks at its due timers whenever a callback returns
(strong fairness of `ExpireAuto` and `ExpireSwitch`); minutes pass. Requests
and resets need not happen, and `AutoOffHappens` is about a plug left alone
(`Quiet`). `Voodoo!Fairness`: seconds pass, `_loop` runs again and again,
however late, and comes to its end, its calls included - that they do is
`CallsReturn`, and, in the whole, `LoopReturns`. `PlugSystem!SystemFairness` is
weaker than the two: `_loop` goes on with what it has begun, and threads and
mutexes are as in `SmartPlug`; nothing has to arrive, to expire or to be
requested for `_loop` to return.

## 4. Proofs

`SmartPlugProofs` (theorems for every width, limit and set of requests from
either thread). `AutoArmed` and `PersistAgrees` are not inductive: they speak of
moments when no call is in progress. The invariant `IInv` adds what holds in
between:

* `ArgInv` - the numbers calls carry fit;
* `LockInv` - which location holds which mutex;
* `PinInv` - the holder of `on_off_mutex` finds the pin as it wrote it;
* `PersistInv` - RAM and EEPROM differ only where a thread is between the two
  writes, and that thread carries the EEPROM's value;
* `ArmInv` - a timer that should be pending is, or some thread `Owes` it: that
  thread is on its way to start it, or to leave the level.

The interesting case of `ArmInv` is `f_auto_off` reading the pin just before
`switch_on` writes it: the switch then owes the timer, as it reads the time
after the pin. One lemma for each part goes through the steps; theorems
`TypeCorrect`, `AutoTimerPending`, `PersistenceAgrees` follow. `OneShotTimers`
has an inductive invariant of its own and the assumption that only the
application thread makes requests; without it the property is false (two calls
on two threads can leave both timers pending), which is why it is not claimed.

`VoodooProofs` (every buffer size, timeout, client behaviour and content of
`PastTable`). `SessionInv` says that without a connection the buffer is empty
and without a client the socket is; with it `StreamIntegrity` is inductive.
`InStep` is stated over all sets of positions closed under "a command follows",
which needs no recursion; its step uses `StreamIntegrity` to know that the
buffer's first byte is the stream's next. Theorems `TypeCorrect` (the buffer
never overflows), `StreamKept`, `FramingKept`. `ServerImplemented` is the
refinement of `CommandStream`: `ServerStep` shows that each step of `Voodoo` is
one of it or none, where `StreamIntegrity` says that the command at the front
of the buffer is the one the stream has at `done`. `LiveClient` is
`LiveClientKept` for a `Punctual` client: keepalives only, a buffer of more
than two bytes (it has 128), and `Patience + Lateness <= KEEPALIVE_TIMEOUT`:
the seconds between keepalives and those by which `_loop` may be late share the
timeout. The server's silence may be longer than the client's, while a
keepalive has arrived and `_loop`, which looks at the clock before it reads,
has not processed it; `AwakeInv` says that one is then in the buffer or in the
socket, and that the silence has grown since by no more than `sinceLoop`. Both
are counted in seconds of `Time.local()`: between keepalives `n` seconds apart
the clock moves on by at most `n + 1`. `KeepalivesInv` says that `processInput`
leaves two keepalives at most, so that there is always room to read one more.

`SmartPlugRefinement`: `SocketImplemented`, the refinement of `Socket`, step by
step. Only `StartAuto` needs `IInv`: the thread that starts an automatic timer
holds the mutex under which the time in RAM and the stored one are the same
(`StartedFromEeprom`, from `LockInv` and `PersistInv`).

`AlarmRulesProofs` (every number of slots and blocks, every set of rules):
`SlotsAgree` and `PointersOwn` are inductive together, with `StoreType`. A
block that `malloc` gives out is free, so no slot points to it (`PointersOwn`),
and the slot `persist_alarm` takes has no pointer to be freed (`SlotsAgree`).
That the second search for a slot finds the first one's is `FreeIndex`, by
well-founded choice of the least free slot.

`PlugSystemProofs`: every behaviour of the whole is one of `Voodoo`
(`ServerPart`) and one of `SmartPlug` (`PlugPart`). So what is proved of either
for every environment holds in the whole; `SystemArmed` and `SystemIsSocket`
say it for the plug. (The theorems of `VoodooProofs` apply to `ServerPart` by
instantiation, which the proof system does not carry out.) `PlugPart` needs an
invariant, `SystemInv`: the buffer holds bytes and what is in `cached` during a
call is a whole command of them, so that the call's argument is one of the
numbers that requests may have.

`AnswersTruthful` (`AcksTrue` for the whole) is proved on top of it. `AcksTrue`
speaks of moments when no call is in progress; `AcksInv` adds what holds during
one: the timer thread's `errno` is never set (`ErrnoClear`), because an operand
printed from two bytes is never out of `strtol`'s range; a result that is there
already is the one the operands deserve (`OutcomeInv`); the answers given so
far are those of the stream before the call (`AccountInv`). How many answers a
stream deserves is stated by the set of positions at which its commands begin,
without recursion. That set is unique (the lemma `AccountUnique`), so that
`AcksTrue` is not satisfied by a lucky choice: `AnswersExact` says that no other
number of answers fits what was executed.

**Data.** The provers cannot use induction theorems, which take an operator.
`LeastNumber!LeastElement` does their work: a set of numbers that is not empty
has a least element. A claim about a recursive function, or about all cells of
a packet, is proved by looking at the least number it fails for.

`MdnsResponderProofs` (any instances, services, subservices, sizes of names,
well-written packets, size of the buffer). None of the five invariants is
inductive by itself; `Inv` is the conjunction of `LengthsTrue` and

* `SetupInv` - vector and map hold what the calls of `addService` brought; of an
  instance added twice the map has one label only, or a question would be
  answered twice over;
* `PhaseInv` - what is empty in which phase: buffer, flags and image;
* `ReadInv` - `answer` is that to the questions read so far, and `readOffset` is
  at the start of the next. Its step is `MatchQuestionAnswers`: the name read is
  the one the sender wrote (`NameReadIs`, through pointers to pointers, since
  each leads to an earlier cell), reading goes on behind it (`AfterNameIs`), at
  most one label in the map matches (`MatchedOnce`), and the records its
  `matched()` marks are those the question asks for (`MatchedRight`);
* `FoundInv` - what is marked is closed under "its reader asks for it next";
* `EntriesInv` - every record written is one that is due, once, answers first;
* `WriteInv` - offsets and image stay within the buffer;
* `NamesInv` - no offset outlives its packet (`AllReset`: resetting the labels
  in the map reaches every label of the records, unless an instance was added
  twice), and while nothing was cut off, each label that has an offset is
  `Readable`: it stands there and the rest of its name follows, at once or
  through a pointer.

`NamesReadable` is where compression meets shared labels. `WriteNameExact`
computes what `Label::write` leaves in labels and image, `WriteNameReadable`
shows that what was readable stays so and the new name becomes so, and
`ReadsChain` follows a name label by label. `Fits` is needed (what is cut off
cannot be read), and so is `Distinct`. `PacketsComplete` needs `Fits` for what
is in the packet, and not for what is in it only once. `LengthsRight` rests on
`WriteSizeExact`: the size is computed in a `uint8_t` before the name is
written, and the names in a record's data, those of the host and of instances,
have at most 196 bytes by the tests in `addService`. (The name of a subservice,
whose length is not tested, only stands in front of records.)

The assumptions are those on the constants, `WidthAssumption`,
`RequestAssumption`, `VoodooAssumption`, `AlarmAssumption`, for the whole
`ServerAssumption`, `CloudAssumption` and `ClientAssumption`, and for mDNS
`SubsAssumption` (a vector of subservices is a sequence), `SizeAssumption` and
`PacketAssumption`. `SizeAssumption` is what `setHostname` and `addService` let
pass: texts shorter than `MAX_LABEL_SIZE`, 63, the "_" included; the length of
a subservice's name is not tested and only has to fit in its byte.
`PacketAssumption` says that packets are well written; what the code does with
others is in section 6. TLC evaluates all of them in the runs of those modules.

**Only model-checked:** `CallsReturn`, `AutoOffHappens`, `StuckSessionEnds`,
`LoopReturns`: liveness is outside the prover's reach.

## 5. Where code and comments part

Each is a run that ends in a counterexample.

* `plug_delay` - seconds are turned into milliseconds in a `uint16_t`: above 65
  the delay wraps, 66 s become 464 ms.
* `plug_never` - setting an automatic time to 0 leaves a pending timer pending;
  it switches once more.
* `plug_auto_on` - `setup()` switches off before it loads the times, so the
  auto-on timer does not run after a reset.
* `voodoo_leftover` - one or two commands left in the buffer wait for more bytes.
* `alarm_form` - every time field is the year cast to `int8_t`: rules for 2016
  to 2047 are refused.

Seen in the models and not kept as runs of their own: a `*` in a time field is
refused as -1; index 256 deletes the alarm in slot 0; `errno` left set by one
call makes a later 0 be refused; the erased EEPROM gives 255 minutes; `_loop`
reads at most half of the free buffer; a keepalive that arrived within 15 s is
not seen before the timeout is tested, and one in time is not seen by a `_loop`
that runs late (`LiveClientKept` without `sinceLoop > Lateness`); an instance
added twice makes names of later responses point to the wrong place
(`NamesDecode` without `Distinct`); a response of more than 512 bytes is cut
off and announces all its records.

## 6. Not modelled

* Formatting, the serial log, `Particle.variable`, Wi-Fi set-up.
* Memory layout: `mac_address` is shorter than its text, `cached` shorter than
  the longest command `PastTable` could ask for.
* Steps back of the clock behind `Time.local()`. (A step ahead is many a
  `Second` at once; `LiveClientKept` excuses the server then as it does when
  `_loop` is late.)
* The length of the timer service's command queue, to which callbacks write
  from the thread that empties it; the library is not in the repository.
* Code nothing calls: `load_alarms`, `get_alarm`, `print_alarm(index)`,
  `monitor_alarms`, the button's initialisation, the logger. (`addService` is
  modelled although `setup()` has its calls commented out.)
* Packets of less than 12 bytes: `readHeader` returns a header it has not
  filled in, so that the flags and `qdcount` tested next are what the stack held
  before, and what there is of the packet may be read as questions.
* Packets that end within a question, as a datagram of more than 512 bytes
  may: cut behind the first byte of a pointer, `Label::Reader::next` does not
  come to an end. Bytes of a label's text that look like pointers, as those of
  a UTF-8 letter do: `next` follows them. A label is one cell here.
* The pins `restore()` configures, and `setHostname`'s and `addService`'s tests
  of names.
* The button: `setup()` has its initialisation commented out, and its state is
  one time stamp, `millis()`, that nothing else reads.

## 7. What could follow

1. `MdnsResponder` on bytes instead of cells, for the two cases of section 6.
2. The mDNS poll as a third callback of the timer thread in `PlugSystem`: it
   shares no state with the others and takes no mutex, so it only delays them
   (the delay of `_loop` is in `Second` and `sinceLoop`).
3. `LiveClient` for a client that also sends commands, while none of its bytes
   stops the framing.
4. Steps back of the clock, with what can still be said about them.
