# Verification of the AC charging pile firmware (`chargersdk`)

The firmware (STM32F429, FreeRTOS) runs an AC charging pile with one or more
connectors. About twenty tasks share one object per connector (`CON_t`) and talk
through FreeRTOS event groups, almost without locks. This directory holds TLA+
models of the control logic, the TLC runs that check them on small instances, and
TLAPS proofs of every safety invariant for every instance. All paths below are
relative to `src/src/app/` unless they start with `src/`.

## 1. The system

| Part | State it keeps | Operations | Talks to |
|---|---|---|---|
| Charge task (`taskcharge.c`, prio 25) | `pCON->state`, retry counters, `dev_err` | one `switch` case per visit of a connector | connector primitives; event groups Charge, Exception, Order |
| Connector primitives (`connector.c`) | relay, PWM of the control pilot, cached pilot state `xCPState` | `StartCharge`, `StopCharge`, `SetRelay`, `SetCPSwitch`, `GetCPState` | GPIO, ADC, timers |
| Monitor (`taskmonitor.c`, prio 23) | - | samples pilot, meter, temperatures | connector primitives |
| Diagnosis (`taskdiag.c`, `interface_diag.c`, prio 27) | confirmation timers | turns samples into condition bits; operates the relay on voltage faults, writes the PWM on over-current | Charge event group, relay |
| RFID (`taskrfid.c`, prio 20) | card machine | authorise, withdraw, stop by card | event groups, remote task, GUI |
| Remote (`taskremote.c`, `interface_remote.c`, prio 18) | connection machine; per connector: start, card, real-time data, order upload; unpaid orders | login, heartbeat, remote start/stop, upload | command queue, event groups, `CON_t.order` |
| Command queue (`libEcharge/ech_protocol_proc.c`, prio 19) | sent and received commands | send up to three times, time out, match replies | TCP client |
| Data (`taskdata.c`, prio 16) | order machine per connector, temporary order files | open, update, finish, store an order | order list, event groups |
| Order files (`cfg_order.c`) | order list in RAM and on flash | add, trim, mark paid, find unpaid | yaffs |
| Timer task (prio 22) | software timers | callbacks that set event bits | event groups |
| Network (`src/src/net/user/tasknetwork.c`, prio 12) | `net_dev->state`, bit `Online` | connect, supervise, disconnect, download | modem or Ethernet, remote task |
| Order content (`order.c`) | periods, totals and fees of an order | split by tariff segment, limits, final cuts | data task |
| OTA, boot loader, GUI, CLI, drivers | see `PROJECT.json` | | |

What is hard here, and hard to test:

* A case of the charge task sleeps inside `SetRelay` (500 ms) and `StopCharge` (up
  to 3 s). The higher-priority diagnosis meanwhile operates the same relay, after a
  look at `pCON->state`, which still shows the state before the case ends. It also runs
  between any two reads of the event bits by which STARTCHARGE decides to close the relay.
* Decisions use cached samples (pilot) and event bits that nobody owns. A bit set
  after its consumer has left meets the next consumer.
* `xTimerDelete` and `xTimerReset` are only queued; a timer may fire after its deletion
  was asked for.
* An order lives in up to three places (temporary file, list in RAM, list on flash)
  and power may fail between any two writes, and inside one: a file is truncated before it is
  written, and an empty file makes its reader reset the charger.
* Two upload machines share one command per connector: its request, its replies and
  its time-out.
* Several tasks withdraw `Authed` at any moment; the time-outs of an unused authorisation
  (20, 30, 60 s) belong to three tasks.
* The network and the remote task each wait for bits of the other and change bits of one
  word without a lock; the data task changes the state of the remote task.
* The tariff account sees clock and meter only when the data task passes.

What makes the parts correct: no power without session; every energised minute under
`StartOK` (the bit that keeps the order open); a stop always ends; a session starts
clean; an order is stored exactly once, survives a power failure, is marked paid only when
the platform took it, and charges no more than what flowed; an unused authorisation is
withdrawn; the charger always finds back to the platform; a lasting fault is reported. `PROJECT.json`, "hazards", lists each hazard at its
line with the properties that would notice it.

## 2. Modules

| Module | Models |
|---|---|
| `ChargeTask` | `taskcharge.c` with the primitives of `connector.c`, the pilot sampling of the monitor, and what diagnosis, RFID, remote, data and timer tasks do to a connector |
| `Session` | abstract: the life of a session as the other tasks see it (`Authed`, `StartOK`, power) |
| `ChargeRefinement` | the refinement mapping of `ChargeTask` to `Session` |
| `StartControl` | the card machine (`taskrfid.c`), remote start and stop and card start (`taskremote.c`), the order up to the end of the session (`taskdata.c`), composed with `Session` for the charge task |
| `RemoteLink` | the network machine (`tasknetwork.c`) and the connection machine (`taskremote.c`), heartbeat, off-line stop, start of a download |
| `Tariff` | the account of an order: `order.c`, and limits and cuts of `taskdata.c` |
| `Diag` | the confirmation machines of `interface_diag.c` with their timers |
| `OrderList` | the order list of `cfg_order.c` as operators |
| `OrderTask` | the order machine of `taskdata.c`, the two upload machines of `taskremote.c`, files, replies, network, power failure |
| `ChargeTaskProofs`, `StartControlProofs`, `RemoteLinkProofs`, `TariffProofs`, `DiagProofs`, `OrderListProofs`, `OrderTaskProofs` | the theorems about the module they are named after, with the inductive invariants; `ChargeTaskProofs` also proves the refinement |
| `MCChargeTask`, `MCOrderTask`, `MCTariff` | roots of the TLC runs; `MCOrderTask` adds a check of the trimming loop on lists up to 8, `MCTariff` two tariffs and a set of limits |

### ChargeTask

*State.* `state` is `pCON->state`; `step` says where a visit sleeps: `"closing"`
(`SetRelay` in `StartCharge`), `"s2wait"` (3 s for the vehicle's S2), `"opening"`
(`SetRelay` in `StopCharge`), `"settle"` (the delay after it); or where, in STARTCHARGE, it
is between two reads of the event bits: `"checked"` (conditions and S2 seen), `"plugged"`,
`"authed"`. The task is one thread, so only a `Free` task visits a connector. `charge` and `exc` are event groups as sets of
bits. `relay` is the command, `welded` the contacts; `Energised` is what
`GetRelayState` reads and what flows. `cp` is the cached pilot state, `pwm` the output.

*Actions.* One per case of the switch, split where the case sleeps or where it has
clearly different outcomes (`ChargingFault`, `ChargingRequest`, `ChargingCondition`,
`ChargingOn`), and STARTCHARGE between its reads (`Startcharge`, `StartchargePlug`,
`StartchargeAuthed`, then `StartCharge` or `StartchargeUnlocked`), because what was seen is
not read again. While a visit re-checks (`Rechecking`) it is ready to run: only the
diagnosis, of higher priority, comes between (`DiagStep`), not the steps of the other tasks
(`TaskStep`); while a visit sleeps, all of them do. `CHARGING` looks at device faults first, then at the requests in the order
of `Rank`, then at the conditions (`MustStop`). `GetCPState` keeps the old state for two
out-of-band samples and reports a pilot fault on the third. `DiagVoltBad` and
`DiagVoltOK` operate the relay of a connector found in CHARGING. `TimerFires` may come
after `DeleteTimer`, since the deletion is queued. `DiagWithdraw` clears `Authed` of a
connector that does not report Working.

*Abstractions.* The bits of `defEventBitCPSwitchCondition` that the task never tells apart
are one (`ReadyOK`), the two temperature bits are one (`TempOK`). `DiagCondition` lets the
diagnosis set and clear them at any moment, which over-approximates its timers. `Weld`
lets contacts stick or come loose while they carry power.

### Session and ChargeRefinement

`Session` has six phases of a connector. It promises: the relay closes only in a visit that
has seen the authorisation (phase `"starting"`); `StartOK` is taken back only without power; a
connector is free again only without power, authorisation and `StartOK`. It does not promise
that the authorisation still stands when the relay closes: the diagnosis may have withdrawn it
since it was read. What becomes of such a session is `UnauthorisedStops`. The mapping reads
the phase off `state` and `step`.

### OrderTask and OrderList

*State.* An order is its serial number. `stat`, `sn`, `pay` are the connector's order;
`tmp` its temporary file; `ram`/`ramPaid` the list, `flash`/`flashPaid` the file.
`up`, `rt`, `np` are the upload, real-time data and unpaid-order machines; `req`, `rep`,
`late` are the shared command, its replies and its time-out bit. `acked` and `home` are
history: what the platform accepted, and whose order it is.

*Actions.* One per case of the order machine and of the upload machines. `Receive` is
`RemoteRecvHandleWithCON`: a time-out of the command overrides a reply, a taken reply drops
every other reply and request of the connector. `Flush` is the write of the list 5 s after
its last change. `PowerLoss` keeps only the files (`Restart`), and perhaps not the one that is
being written: `SetCfgObj` truncates it first (`TornWrite`), which loses the list, or leaves
a temporary file empty or cut (`Torn`). `CheckOrderTmp` is the search for
temporary files after power-up, which removes one that cannot be parsed;
`CheckOrderTmpEmpty` is the reset of the charger when it finds one empty. `RefuseStart` is a start command for a busy connector.
`WAITSTART` may time out at any moment, and so may `WAITUSE` (60 s).

*List.* `Trim` is the deletion loop of `AddOrderCfg`, index by index, as a recursive
function.

### StartControl

*State.* `rfid` and `chosen` are the reader's state and connector, `stat`, `startType`,
`carded` the connector's order, `rmt` and `card` the two remote machines inside it (so that
`OrderInit` resets them too), `sync` the connectors whose order the RFID task has handed to the
data task and which that task has not taken yet, `signal` the reported work state. The connector itself is `Session`. `holdAge`,
`rmtAge`, `cardAge` are the ages of the time stamps in units of 10 s.

*Actions.* One per case of the card machine and of the remote machines, `DataStep` for the
order. `RecvStart` writes the start type before anything is checked, as
`RemoteIF_RecvRemoteCtrl` does; `checked` is the moment between the check and
`AcceptStart`, when only tasks of higher priority run. `CtrlFail` clears `Authed` whoever set
it. `Synced` is the end of `xEventGroupSync`, by the data task's answer or after 8 s without
one. `Tick` lets time pass only when no running task has a time-out to take.

*Abstractions.* `canChargeOrNot`, which talks to display and platform for up to 90 s, is one
step with every outcome; a data task that needs more than the 8 s is done with the order
when the card leaves HOLD (`StallBound`); the stop request of a card is left to `ConCharge`, which may stop
at any time.

### RemoteLink

*State.* `net` and `remote` are the two machines, `online`, `logined` and `error` the bits
between them. `to` and `loaded` are a `netChangeState` under way: the signal word is loaded
and will be stored, with what other tasks wrote in between lost. `known` is whether the
platform knows the present connection, `reply` the newest login reply, acceptance or refusal,
`lost` the heartbeat periods since the last answer. `StartTypes` are the kinds of sessions.

*Actions.* One per state of both machines; `CardTimeOut`, `SetUsrPass`, `SetOTA`, `OTA_Start`
for the other places that leave REMOTE_LOGINED; `KeyChange` for the data task, which writes
REMOTE_OFFLINE in any state and with every pass until the configuration is refreshed;
`Refusal` for a login that the platform refuses; `Reset` for a download that succeeds. A
login reply that nobody waits for stays in the queue.

### Tariff

*State.* `period` is `chargeSegStatus`, `cur` the segment and period the order is in, `total`
the totals, `metered` the reference: the same energy by the period it flowed in. A pass of
the data task is one step, together with what clock and meter did since the pass before
(`Between`). Amounts are integers; `Whole` and `Cent` are the two truncations.

*Actions.* MAKE, UPDATE, WAITSTOP, FINISH (whose last act, the save of the order, stamps its
stop time), and `NextOrder` (`OrderInit` and a new session).
A pass in UPDATE that sees the end of the session still looks at the limits and may go
to WAITSTOP first, as the code does. The search through segments and periods is a table by
the hour of the day (`SegOfHour`), the loop over the periods of a segment a recursive
function (`SegSum`), which the default segment, without configured periods, leaves at 0.

### Diag

A behaviour follows one of the quantities voltage, frequency, current. A reading is its
place among the limits (`LowBand` and `HighBand` lie between the limits of fault and of
recovery). `timer` is `"due"` from its expiry to its callback, and `DeleteTimer` may
find it there: the bit is then left over for the next wait. `con` is how far the charge task
is with a session: STARTCHARGE after its check (`"checked"`), asleep in `SetRelay`
(`"closing"`), CHARGING. `late` is history: the voltage was confirmed bad after the check and
before CHARGING, and has not been good since.

## 3. Runs

| Run | Checks | Instance |
|---|---|---|
| `ChargeSafety` | `TypeOK`, `NoLiveIdle`, `Billed`, `CleanStart`, `PasteFlag`, `StandbyIsSafe`, `ImplementsSession` | 1 connector, flaky voltage and temperature, pilot 0/6 V, card reader fault, both start types, card stop: 1.5 M states |
| `ChargeLive` | `StopServed`, `StopCompletes`, `UnauthorisedStops` | pilot 0/6 V, meter fault, card stop, with fairness: 270 k states |
| `OrderSafety` | `TypeOK`, `StoredOnce`, `KeptUntilStored`, `ListKeeps` | 2 serial numbers, 1 power failure, also inside a write, refused starts, list of 1: 5.1 M states |
| `OrderLive` | `EndedIsStored` | 1 serial number, network losses, with fairness |
| `StartControl` | `TypeOK`, `AuthWatched`, `ReaderFreed` | 1 connector, with fairness: 660 k states |
| `RemoteLink` | `TypeOK`, `OnlineIsTcp`, `Reconnects`, `GhostLoginEnds`, `LoginedEnds` | 1 connector, with fairness: 245 k states |
| `Tariff` | `TypeOK`, `NeverOvercharged`, `LossBounded`, `TimesInSession` | a day of 3 hours, 2 segments and an hour in none, 5 kinds of limits: 2.4 M states |
| `Diag` | `TypeOK`, `RelayFollowsVoltage`, `BadIsReported`, `GoodIsReported`, `Settles` | all three quantities, with fairness |
| `ChargeVoltage` | `VoltageProtection` is violated | flaky voltage |
| `OrderPaid` | `PaidIsAccepted` is violated | 2 orders |
| `TariffTotal` | `TotalIsMetered` is violated | as `Tariff`, with a long period |
| `RemoteOffline` | `OfflineStops` is violated | 2 connectors with remote sessions, with fairness |

*Bounds.* One connector is enough for the charge runs: connectors share only the thread
(`Free`) and the charger's faults, and the safety properties are proved for any number.
`TriesPerSample` (2 in the runs) bounds how often STOPCHARGE is visited between two samples;
the tries of several samples add up to five, so that the give-up path is reached. Three
out-of-band samples, the pilot fault, are reached with level 0. Two serial numbers give
every bit of a finished order a next order to meet, and give the two upload machines one
order each. With `MaxItem = 1` the second order fills the list. One power failure is
enough for the losses between writes, because `PowerLoss` resets all but the files. Two
connectors (whose ORDER commands share one time-out bit) are left to a later extension of
the order runs. The list of the runs is too short for what the loop of `AddOrderCfg` drops
of a long one: `MCOrderTask` checks that as an assumption (`TrimChecked`), and
`TrimIsEveryOther` proves it. `StartControl` has one connector: the reader serves one
connector at a time and the other machines belong to one; ages beyond the longest
time-out (`MaxAge`) are not told apart. `RemoteLink` takes `LoginLost` = 2 and `StopLost` = 3
for the 3 and 12 heartbeats of the code: what matters is that the reconnection comes
first and that a period passes between. Two connectors, the case in which the loop over them
matters, are in `RemoteOffline`, with `LoginLost` = 1 and `StopLost` = 2 and
remote sessions only. `Tariff` has a day of 3 hours of 3 units and bounds a
session to `MaxTime` = 8 units. `LimitTime` = 8 is less than a day and more than two of its
three hours, as 85800 s is less than 24 and more than 23 hours: a session that starts late
enough in an hour comes back to that hour before the limit. 4 units of energy let every
period of a session be charged. `TariffTotal` takes hours of 2 units and a period over the
night; its counterexample fits.

*Fairness.* `SF` of `ChargeStep(c)`: the task's `for` loop comes back to a connector
whatever the others do, but another connector's sleep disables its visit in between, so
weak fairness would not do. `SF` of `GetCPState(c)` outside the reads of a start: the
monitor samples periodically, and those reads keep it from running again and again. `WF`
of the data task's steps together with the forced time-out: a pass every 100 ms. `WF` of
`RemoteStep`, `NoPayStep`: the remote task runs while it is logged in. `WF` of `Expire` and
`Flush`: software time-outs. In `StartControl`, `WF` of the task's steps and `SF` of `Tick`:
time passes although the platform's commands interrupt it again and again. In
`RemoteLink`, `WF` of the network task's steps and of the heartbeat period, `SF` of the remote
task's (its counter of login passes goes on while the link comes and goes), `WF` of an
answer of the platform while the connection works, and `SF` of a store of DISCONNECT that
no login interrupts, because that window is a few instructions wide; and keys are not
changed for ever. In `Diag`, `WF` of the
diagnosis and of the timer. Nothing else is assumed of the network, the platform, the
vehicle or the user.

*What the passing runs show.* Power flows only in a session or while a failed stop is being
handled, whatever the diagnosis does to the relay (`NoLiveIdle`); it flows under `StartOK`
(`Billed`); a connector that reports Standby, the condition for accepting a start or
settings, carries power at most until the first visit of CHARGING (`StandbyIsSafe`). Every
path of a failed session resets its counters (`CleanStart`) and withdraws the relay fault
(`PasteFlag`). A stop is served and ends (`StopServed`, `StopCompletes`). The authorisation that
a start has read may be gone when the relay closes; such a session, like any that loses its
authorisation, ends in CHARGING unless the voltage fails, which CHARGING leaves to the
diagnosis (`UnauthorisedStops`). An order is never
in two places that recovery would both count (`StoredOnce`), is on flash from FINISH to STORE
(`KeptUntilStored`), and leaves the list only when the list is full or the charger restarts,
after a power failure or by itself, before the list is in its file (`ListKeeps`); it is stored however the network behaves (`EndedIsStored`).
An authorisation that has not led to a session is watched at every moment by the
remote start or the card it came from (`AuthWatched`), and the reader comes free after
every card (`ReaderFreed`). While link and platform work, the charger logs in again from
every state of the two machines (`Reconnects`); it notices when the platform does not know
its connection (`GhostLoginEnds`) and takes the `Logined` bit back (`LoginedEnds`). That it stops the
remotely started sessions after a long loss does not hold with two connectors: the run
`RemoteOffline`. A session that does not come
back to a period is never charged more than it took (`NeverOvercharged`), each of its periods
misses at most three passes, and a fourth only if it was left while the order was made
(`LossBounded`), and its times lie in the session (`TimesInSession`). All three except the
sessions that come back to a period (`Revisited`), which `TariffTotal` shows to be billed
twice: the limit of 85800 s does not rule them out.
The diagnosis reports what lasts (`BadIsReported`, `GoodIsReported`), does not oscillate on
a constant reading (`Settles`), and keeps the relay of a charging connector with the voltage
(`RelayFollowsVoltage`) -- except for a voltage confirmed bad between the check before the
start and CHARGING. Nobody opens the relay for that one: the run `ChargeVoltage`.

## 4. Deviations found

Four runs end in a violation; `PROJECT.json`, "findings", quotes the line of the repository
each disagrees with.

* `ChargeVoltage`: a bad voltage confirmed while the relay closes is left alone; the
  session runs on it.
* `OrderPaid`: a reply after the forced time-out leaves `RemoteOrderOK` set; the next order
  of the connector takes it for its own acceptance.
* `TariffTotal`: a period is measured from its first visit; a session over the night that
  comes back to its first period is billed what flowed in between once more.
* `RemoteOffline`: after twelve lost heartbeats only the first remotely started connector is
  asked to stop, and REMOTE_NO, the next state, does not look again.

Seven more are stated as properties in the modules and are not kept as runs. To see one,
put it in place of the properties of the configuration named.

* `StopIsCut` (`Tariff`, `TariffTotal.cfg`): FINISH cuts the stop time of an order limited by
  time to the time asked for; the save of the finished order, some lines later
  (`taskdata.c:328`), stamps it with the present time (`cfg_order.c:136`).
* `PowerCutBeforeError` (`ChargeTask`, `ChargeVoltage.cfg`): five tries of a stop, 10 ms apart,
  can all read the pilot sample taken before the PWM was switched off; the stop is given up
  with the relay closed, although `connector.c:1034` says the power is cut in any case.
* `NoPayIsAccepted` (`OrderTask`, `OrderPaid.cfg`): the machine for unpaid orders takes the
  reply to another order of its connector for a refusal and marks its order paid
  (`taskremote.c:382`).
* `RefusalLeavesOrder` (`OrderTask`, `OrderPaid.cfg` with `BusyStarts = TRUE`): a refused remote
  start has already overwritten the serial number of the running order
  (`interface_remote.c:463`).
* `NoPayEnds` (`OrderTask`, `OrderPaid.cfg` with `FairSpec`): the reply to one upload machine
  deletes the request of the other, which then waits as long as the link stays up
  (`interface_remote.c:93`).
* `AuthHasOrder` (`StartControl`): the data task gives a card's order up after 20 s, the reader
  its authorisation after 30 s; a vehicle plugged in between charges without an order.
* `RefusalLeavesSession` (`StartControl`): a start command for a charging connector is answered
  with "already started", but takes its authorisation away, so the session ends
  (`taskremote.c:534`), and makes a card session a remote one.

Smaller ones, visible in the models but not kept as runs: the anti-shake bit of a timer that
expires while being deleted is taken by the next loss of the plug (`TimerFires` after
`DeleteTimer`, `taskcharge.c:251`); `FinishToRemote` of an order finished without the network
makes the upload machine send the next order when its session starts (`UploadWait`,
`taskremote.c:738`); an order stored less than 5 s before a power failure is lost, because its
temporary file is deleted first (`Store`, `taskdata.c:377`; `ListKeeps` states the window), and a power failure inside the write of the list loses all of
them (`TornWrite`, `cfg_parse.c:359`); with two connectors, the reset for an empty temporary file
of one loses the order that the same search has just moved from the file of the other to RAM
(`CheckOrderTmpEmpty`, `cfg_parse.c:419`);
the trimming loop drops every other of the old orders, not the oldest (`cfg_order.c:109`;
`TrimIsEveryOther` states it). A stop request raised when no session runs (a remote stop
in any state, an off-line stop, a limit in the pass that has seen the end) ends the next
session at once (`taskremote.c:491`, `:609`, `taskdata.c:152`). Energy that flows outside all
configured segments is not billed, although a price is configured for it: the loop at
`order.c:179` runs over `SegTime[4].ucPeriodCont`, which is always 0. A card order whose
energy fee alone exceeds the balance ends with a negative service fee (`taskdata.c:218`). A
voltage that swings from one side to the other restarts its confirmation each time and is
never confirmed (`interface_diag.c:219`). An upgrade accepted in Standby starts with a later
reply and may reset a session begun in between (`taskremote.c:218`). The comment at
`taskremote.c:413` says that twelve lost heartbeats lead to a reconnection; the code takes
three.

## 5. Proofs

Every invariant of every passing run is a theorem, for every value of the constants that the
assumptions allow; so are the action property `ListKeeps`, the refinement of
`Session`, and what the trimming loop drops of a list of any length.

| Module | Theorems |
|---|---|
| `ChargeTaskProofs` | `TypeCorrect`, `PowerOnlyInSession`, `PowerIsBilled`, `SessionsStartClean`, `PasteOnlyInError`, `StandbyCarriesNoPower`, `ChargeImplementsSession` |
| `OrderTaskProofs` | `OrderTypeCorrect`, `OrderStoredOnce`, `OrderKept`, `ListIsKept` |
| `StartControlProofs` | `StartTypeCorrect`, `AuthIsWatched` |
| `RemoteLinkProofs` | `LinkTypeCorrect`, `OnlineIsNetState` |
| `DiagProofs` | `DiagTypeCorrect`, `RelayIsProtected` |
| `OrderListProofs` | `TrimIsEveryOther` |
| `TariffProofs` | `TariffTypeCorrect`, `NeverTooMuch`, `LossIsBounded`, `TimesAreInSession` |

*Assumptions on the constants.* `ChargeTask`: requests and condition bits are among the ones the
source names, levels are among 0, 6, 9, 12, `RelayPaste` is not an external fault, the
sampling bound is positive. `OrderTask`: there is a connector, and the numbers are natural.
`OrderList`: `RemoveOldItem` is at most the size of a full list, so that the trimming loop
never meets a missing item. `Tariff`: an hour is longer than one pass of the data task
(3600 s against 100 ms), prices, units and limits are natural numbers, and the default segment has no
periods, as nothing configures `SegTime[4]`. The tariff itself is arbitrary: periods may
overlap, be empty or leave hours out. `StartControl`: `Nobody` is not a connector.
`RemoteLink`: the heartbeats of a reconnection (`LoginLost`) are positive and fewer than those
of an off-line stop (`StopLost`), as 3 and 12 are, and sessions are started by card or
remotely.

Almost no invariant is inductive as it stands. Each module of proofs names its inductive
invariant `IInv`, and has one lemma per action or group of actions that leave the same parts
alone.

*ChargeTask.* `IInv` adds, for each connector:

* `SleepOK`: a visit sleeps, or is between two reads, only in STARTCHARGE or STOPCHARGE;
* `PowerOK`: power after a stop remains only with the retry counter left standing, and none
  flows in the settling delay. Without it `Unlock` could send a live connector to RETURN;
* `StartedOK`: `StartOK` accompanies the session and a failed stop. It carries `Billed`
  through the states in which a stop has failed;
* `CountOK`: the counter is 0 outside the states of a stop, and at most 4 in STOPCHARGE, so
  that the fifth try leaves the state: hence the type of the counter;
* `PasteOK`: the relay fault comes with the counter and without the device-error mark, so
  that ERROR is left only by the branch that withdraws it;
* `SignalOK`: a stop is never reported as Standby.

*Refinement of Session.* Initial states map to initial states; under `IInv` each action of the
charge task maps to one action of `Session` or to a stutter. The proof has a step per action
that names the one it maps to. `IInv` is needed where a case of the switch does not look at
power itself: RETURN gives the connector back without power only because of `PowerOK`.
`StartchargeAuthed` maps to `See`, the step that needs the authorisation; `StartCharge`, which
closes the relay, only needs that it was seen.

*OrderTask.* `StoredOnce` needs to know where numbers may be. `Given`: a number in a list or a
file has been given out, and to the connector that holds it. `Unstored`: an order on its way
to STORE has a number that neither list has, also when a refused start has replaced it.
`InStep`: the search for temporary orders comes before any order of the connector, a session
has an order that waits for its end, an upload has an order to send. `Synced`: the file is
behind the list only while the store timer runs, which is what `ListKeeps` asks for after a
restart. Power failure and reset share one lemma about `Restart`; a torn file holds no number. `OrderListProofs` supplies the list: the trimming loop has a closed form,
keeps its list injective and returns a subset of it.

*OrderList.* `TrimSeq` says what the loop with its shifting indices leaves, for any list: round
n has dropped the first n items at odd places, the rest follow in order.
`TrimIsEveryOther` states its consequence for `AddOrderCfg`; that the list is never longer than
`MaxItem` + 1 is part of the type invariant of `OrderTask`.

*StartControl.* `AuthWatched` needs `StartedIsOn` (StartOK only where the session has begun),
`CheckedIdle` (between the check of a remote start and its assignments the order is idle,
because only tasks of higher priority run there) and `LateWatched` (an order that has seen
its session start is not what watches an authorisation, since `OrderInit` will clear its
remote machine).

*RemoteLink.* `OnlineIsTcp` is broken by a store of a word loaded too early. `CarriesNoOnline`
says that only the way out of TCP_ON has loaded the bit, and that store clears it.

*Diag.* `ReportOK` ties the report to the state of the machine: bad while confirmed so, and
otherwise good for a connector that has passed the check before the start. The relay follows,
except for what `late` remembers.

*Tariff.* `IInv` says what a period holds: its energy is the meter less the reading of its first
visit (`Visits`), which is at most what flowed in it as long as the session has not come
back to a period (`Charged`); what a period misses is counted by how far the visit has come
(`Missed`, `Opens`), and the current period is that of the clock until a limit stops the updates
(`Followed`). The totals follow because the sums over periods and segments are monotone in
each period (`TotalsLeq`), the final cuts only lower them (`CutTotalsIs`), and the reference
account grows with each unit at the price of its hour (`MeteredAdd`). `JudgeLasts` is where
the hour must be longer than a pass: a period that has been entered is visited again before
it is left.

*Induction.* The library's induction theorems take an operator as a parameter, which the
installed provers cannot instantiate. What the recursive functions `Trim` and `SegSum` compute
is therefore proved by the least counterexample: `Least` gives a least element of a set of
natural numbers, from the well-foundedness of `<`, and the set of the n at which the
claim fails has none. That such a function exists at all is proved first: `LoopEnds` extends
a function up to n - 1 to the least n for which there would be none.

*Only model-checked.* Liveness and everything else under fairness (`StopServed`, `StopCompletes`,
`EndedIsStored`, `ReaderFreed`, `Reconnects`, `GhostLoginEnds`, `LoginedEnds`,
`UnauthorisedStops`, `BadIsReported`, `GoodIsReported`, `Settles`), which is out of the prover's reach.

## 6. Not modelled

* The lock of socket type B. Such a socket never gets `SocketTempOK`
  (`interface_diag.c:696`) and so never starts.
* Contacts already welded at power-up; the delay at the end of ERROR.
* The comparison of temperatures with their limits: one bit of `ChargeTask`, set and cleared
  at any time. (`HandleTemp` returns an uninitialised level for a temperature below the lower
  limit, `interface_diag.c:55`.)
* Floating-point rounding of energies and fees beyond the two truncations.
* The FTP server mode of a charger without bitmaps, which it never leaves; the transfer of a
  download and the replacement of files.
* A power failure while a download is recorded in the configuration.
* Cards of the white list, which start without a serial number. Serial numbers of the platform
  are fresh.
* A list file cut in the middle by a power failure: it cannot be parsed and stops the data task
  for ever (`taskdata.c:50`). An empty list file is modelled. The configuration files, whose
  writes are cut in the same way.
* The stop times stamped into a running order by the saves of UPDATE: the next one, or FINISH,
  stamps it again.
* An order run with two connectors (the proofs cover any number).
* The cJSON list is changed by two tasks without a lock; each access is one step here.
* The settings and requests of the platform, which read and write the configuration.
* The log, configuration files, the frame codec, network drivers, boot loader, GUI, CLI and
  vendored code (`PROJECT.json`, "components"). The repository is mostly vendored: the models
  cover the control logic of `src/src/app` and the network task; drivers, GUI and
  middleware have no state of their own that the properties above depend on.

## 7. Plan

Modelled, checked and proved: all modules of section 2. Next:

1. An abstract specification of an order as platform and user see it (open, finished, kept,
   stored, paid), which `OrderTask` implements, and the refinement as a theorem.
2. The machines of `StartControl` that stand for the charge task are `Session`: the theorem that
   what `Session` promises to them is what `ChargeTask` gives.
3. Action properties: which steps may withdraw an authorisation, which may open the relay.
4. In the models: an order run with two connectors; the power failure during a download.
