------------------------------ MODULE Routing ------------------------------
(***************************************************************************)
(* The restart test of tool/qxrouting: Routing.cpp, Device.cpp and         *)
(* RoutedDevice.cpp.                                                       *)
(*                                                                         *)
(* A Device fetches the announcements of routed devices from its own       *)
(* daemon and keeps a RoutedDevice, with a peer of its own, for each.  A   *)
(* RoutedDevice fetches the services of its device.  All devices are       *)
(* restarted again and again: when the hbkProtocol service of all of them  *)
(* is there again, or when a timer expires.                                *)
(*                                                                         *)
(* All peers share one event loop; the main thread waits for the response  *)
(* to the fetch and performs the first restart, without a mutex: a map     *)
(* changed under its iteration may crash the process.  All peers share the *)
(* table of open requests (see OpenRequests): a RoutedDevice that loses    *)
(* its connection or is destroyed cancels the open request of the Device.  *)
(***************************************************************************)
EXTENDS Integers, Sequences, SequencesExt

CONSTANTS
    Devices,        \* uuids of routed devices
    Flaky,          \* those that may go down or lose their service unasked, or be
                    \* announced without their jet port or once more
    MaxCycles,      \* bound: restarts of all devices
    MaxFaults       \* bound: such faults, and losses of the Device's connection

ASSUME RoutingAssumption ==
    /\ IsFiniteSet(Devices)
    /\ Flaky \subseteq Devices
    /\ MaxCycles \in Nat /\ MaxFaults \in Nat

VARIABLES
    main,           \* the main thread: "register", "send", "wait" in the constructor of
                    \* Device, then "count", "restart", "join", "end"
    todo,           \* devices its iteration has still to visit
    pending,        \* the request of the Device's fetch: "no", "open", "failed" to be sent,
                    \* or "lost": open, but its error notifier has fired in vain
    fetching,       \* the Device's fetch is in m_fetchers
    fetchDone,      \* m_fetchDone
    fetched,        \* the daemon: "no", "sent" on its way to it, "yes"
    inbox,          \* messages of the Device's daemon
    linked,         \* the Device's connection is up
    routed,         \* keys of m_routedDevices
    conn,           \* those whose peer is connected
    services,       \* messages of the daemon of a routed device
    infos,          \* keys of m_appearanceInfos
    count,          \* appearanceCount
    available,      \* hbkProtocolAvailable
    disappeared,    \* disappearTimePoint is set
    cycle,          \* restartCycleCount
    timer,          \* s_timer is running
    crashed,        \* the unsynchronised access to the maps was fatal
    up, hbk,        \* the devices that run, and those whose hbkProtocol service runs
    announced,      \* how a device is announced: "no", "noport", "port"
    asked,          \* devices that have received a call of system/restart
    downs,          \* how often a device went down
    faults          \* number of faults

tester == <<routed, conn, infos, count, available, disappeared>>
device == <<pending, fetching, fetchDone>>
mainThread == <<main, todo>>
world == <<up, hbk, announced, asked, downs, faults>>
vars == <<mainThread, device, fetched, inbox, linked, tester, services, cycle, timer, crashed, world>>

Msg(e, d, port) == [event |-> e, dev |-> d, port |-> port]
ResultMsg == [event |-> "result"]

\* The peer of the Device is connected; its constructor is about to fetch.
Init ==
    /\ up \in SUBSET Devices
    /\ hbk = up
    /\ announced = [d \in Devices |-> IF d \in up THEN "port" ELSE "no"]
    /\ asked = {}
    /\ downs = [d \in Devices |-> 0]
    /\ faults = 0
    /\ inbox = <<>>
    /\ linked = TRUE
    /\ main = "register" /\ todo = {}
    /\ pending = "no" /\ fetching = FALSE /\ fetchDone = FALSE /\ fetched = "no"
    /\ routed = {} /\ conn = {} /\ infos = {}
    /\ services = [d \in Devices |-> <<>>]
    /\ count = [d \in Devices |-> 0]
    /\ available = {} /\ disappeared = {}
    /\ cycle = 0
    /\ timer = FALSE
    /\ crashed = FALSE

Running == ~crashed /\ main # "end" /\ cycle < MaxCycles

-----------------------------------------------------------------------------
(* Restarting *)

\* restartRoutedDevices: a call reaches a device that is connected and running.
Restart(ds) ==
    /\ asked' = asked \cup (ds \cap conn \cap up)
    /\ infos' = infos \cup ds

\* s_timer.set: a repeating timer, started anew.
Arm == timer' = TRUE

\* checkAndReboot in the event loop.
CheckAndReboot ==
    /\ cycle' = cycle + 1
    /\ Arm
    /\ Restart(routed)

\* restartTimerCb.  Two minutes are enough for the main thread to get to join().
TimerFires ==
    /\ Running
    /\ timer /\ main = "join"
    /\ CheckAndReboot
    /\ UNCHANGED <<mainThread, device, fetched, inbox, linked, routed, conn, count, available, disappeared,
                   services, crashed, up, hbk, announced, downs, faults>>

-----------------------------------------------------------------------------
(* The main thread *)

\* The constructor of Device registers its fetch and a request for it ...
FetchRegistered ==
    /\ Running
    /\ main = "register"
    /\ main' = "send"
    /\ fetching' = TRUE /\ pending' = "open"
    /\ UNCHANGED <<todo, fetchDone, fetched, inbox, linked, tester, services, cycle, timer, crashed, world>>

\* ... and sends it.  Over a connection that is lost this fails, and an error
\* notifier is set.
FetchSent ==
    /\ Running
    /\ main = "send"
    /\ main' = "wait"
    /\ \/ linked /\ fetched' = "sent" /\ UNCHANGED pending
       \/ UNCHANGED fetched /\ pending' = IF pending = "open" THEN "failed" ELSE pending
    /\ UNCHANGED <<todo, fetching, fetchDone, inbox, linked, tester, services, cycle, timer, crashed, world>>

\* The constructor of Device returns when m_fetchDone is set.
DeviceConstructed ==
    /\ Running
    /\ main = "wait" /\ fetchDone
    /\ main' = "count"
    /\ UNCHANGED <<todo, device, fetched, inbox, linked, tester, services, cycle, timer, crashed, world>>

\* main(): without routed devices the test ends, else checkAndReboot begins.
FirstReboot ==
    /\ Running
    /\ main = "count"
    /\ IF routed = {} THEN main' = "end" /\ UNCHANGED <<todo, cycle, timer>>
       ELSE main' = "restart" /\ todo' = routed /\ cycle' = cycle + 1 /\ Arm
    /\ UNCHANGED <<device, fetched, inbox, linked, tester, services, crashed, world>>

\* The main thread restarts one device after the other, then waits in join().
FirstRestarts ==
    /\ Running
    /\ main = "restart"
    /\ \/ \E d \in todo : Restart({d} \cap routed) /\ todo' = todo \ {d} /\ UNCHANGED main
       \/ todo = {} /\ main' = "join" /\ UNCHANGED <<todo, asked, infos>>
    /\ UNCHANGED <<device, fetched, inbox, linked, routed, conn, count, available, disappeared,
                   services, cycle, timer, crashed, up, hbk, announced, downs, faults>>

-----------------------------------------------------------------------------
(* The event loop *)

\* stop() of any peer cancels the open requests: the fetch of the Device is
\* unregistered and its constructor told that it is done.
CancelRequests ==
    /\ pending' = "no"
    /\ fetchDone' = (fetchDone \/ pending # "no")
    /\ fetching' = (fetching /\ pending = "no")

\* The error notifier of the request reads the id from an AsyncRequest that is
\* gone (see OpenRequests): the fetch fails, or nothing is found and its
\* callback stays in the table.
ErrorNotifierFires ==
    /\ Running
    /\ pending = "failed"
    /\ CancelRequests \/ (pending' = "lost" /\ UNCHANGED <<fetching, fetchDone>>)
    /\ UNCHANGED <<mainThread, fetched, inbox, linked, tester, services, cycle, timer, crashed, world>>

\* The maps change: fatal, perhaps, when the main thread iterates over them.
MapsChanged == crashed' \in {crashed, main = "restart"}

\* The constructor of RoutedDevice connects, setServiceCb fetches: the services
\* that run are notified.
FirstServices(d) == IF d \in hbk THEN <<"hbk">> ELSE <<>>

\* Faulty variant: the first announcement completes the fetch.
FetchRoutedIsDone(m) ==
    /\ fetching /\ m.event # "remove" /\ m.dev \notin routed /\ m.port /\ m.dev \in up
    /\ routed' = routed \cup {m.dev}
    /\ conn' = conn \cup {m.dev}
    /\ services' = [services EXCEPT ![m.dev] = FirstServices(m.dev)]
    /\ count' = [count EXCEPT ![m.dev] = @ + 1]
    /\ infos' = infos \cup {m.dev}
    /\ fetchDone' = TRUE
    /\ MapsChanged
    /\ UNCHANGED <<pending, fetching>>

\* Faulty variant: a device that is known is added again.
FetchRoutedAgain(m) ==
    /\ fetching /\ m.event # "remove" /\ m.port /\ m.dev \in up
    /\ routed' = routed \cup {m.dev}
    /\ conn' = conn \cup {m.dev}
    /\ services' = [services EXCEPT ![m.dev] = FirstServices(m.dev)]
    /\ count' = [count EXCEPT ![m.dev] = @ + 1]
    /\ infos' = infos \cup {m.dev}
    /\ MapsChanged
    /\ UNCHANGED device

\* fetchRoutedCb: a device appears.
DeviceAppears(m) ==
    /\ fetching /\ m.event # "remove" /\ m.dev \notin routed /\ m.port /\ m.dev \in up
    /\ routed' = routed \cup {m.dev}
    /\ conn' = conn \cup {m.dev}
    /\ services' = [services EXCEPT ![m.dev] = FirstServices(m.dev)]
    /\ count' = [count EXCEPT ![m.dev] = @ + 1]
    /\ infos' = infos \cup {m.dev}
    /\ MapsChanged
    /\ UNCHANGED device

\* Faulty variant: the peer of a device that vanished is left running.
DeviceVanishesLate(m) ==
    /\ fetching /\ m.event = "remove" /\ m.dev \in routed
    /\ routed' = routed \ {m.dev}
    /\ MapsChanged
    /\ UNCHANGED <<conn, services, count, infos, device>>

\* A device vanishes: ~RoutedDevice forgets the callback before its peer stops.
DeviceVanishes(m) ==
    /\ fetching /\ m.event = "remove" /\ m.dev \in routed
    /\ routed' = routed \ {m.dev}
    /\ conn' = conn \ {m.dev}
    /\ services' = [services EXCEPT ![m.dev] = <<>>]
    /\ CancelRequests
    /\ MapsChanged
    /\ UNCHANGED <<count, infos>>

\* Nobody fetches any more; a device that is known, has no jet port, or cannot
\* be connected (the constructor throws, which handleMessage catches); or one
\* that vanishes without having been known.
NothingToDo(m) ==
    /\ \/ ~fetching
       \/ m.event # "remove" /\ (m.dev \in routed \/ ~m.port \/ m.dev \notin up)
       \/ m.event = "remove" /\ m.dev \notin routed
    /\ UNCHANGED <<routed, conn, services, count, infos, crashed, device>>

\* Device::fetchRoutedCb
FetchRoutedCb ==
    /\ Running
    /\ inbox # <<>> /\ Head(inbox).event # "result"
    /\ \/ DeviceAppears(Head(inbox))
       \/ DeviceVanishes(Head(inbox))
       \/ NothingToDo(Head(inbox))
    /\ inbox' = Tail(inbox)
    /\ UNCHANGED <<mainThread, fetched, linked, available, disappeared, cycle, timer, world>>

\* Faulty variant: an error ends the wait of nobody.
FetchResponseNever ==
    /\ Running
    /\ inbox # <<>> /\ Head(inbox).event = "result"
    /\ pending' = "no"
    /\ inbox' = Tail(inbox)
    /\ UNCHANGED <<mainThread, fetching, fetchDone, fetched, linked, tester, services, cycle, timer, crashed, world>>

\* Device::fetchResponseCb
FetchResponseCb ==
    /\ Running
    /\ inbox # <<>> /\ Head(inbox).event = "result"
    /\ pending' = "no"
    /\ fetchDone' = (fetchDone \/ pending # "no")
    /\ inbox' = Tail(inbox)
    /\ UNCHANGED <<mainThread, fetching, fetched, linked, tester, services, cycle, timer, crashed, world>>

\* All routed devices that were ever seen have their hbkProtocol service.
Complete(now) == infos \subseteq now

\* Device::serviceCb: hbkProtocol appears; after a restart this may complete
\* the cycle, and the next one begins.
HbkAppears(d) ==
    /\ Head(services[d]) = "hbk"
    /\ available' = available \cup {d}
    /\ IF d \in disappeared /\ Complete(available') THEN CheckAndReboot
       ELSE UNCHANGED <<cycle, timer, infos, asked>>
    /\ services' = [services EXCEPT ![d] = Tail(@)]
    /\ UNCHANGED <<conn, disappeared, device>>

\* Faulty variant: only services that appear are noted.
HbkDisappearsUnnoticed(d) ==
    /\ Head(services[d]) = "nohbk"
    /\ services' = [services EXCEPT ![d] = Tail(@)]
    /\ UNCHANGED <<available, conn, disappeared, cycle, timer, infos, asked, device>>

\* hbkProtocol disappears.
HbkDisappears(d) ==
    /\ Head(services[d]) = "nohbk"
    /\ available' = available \ {d}
    /\ services' = [services EXCEPT ![d] = Tail(@)]
    /\ UNCHANGED <<conn, disappeared, cycle, timer, infos, asked, device>>

\* The peer of a routed device stops: serviceCb("", false), then clear().
\* hbkProtocolAvailable stays as it is.
ConnectionLost(d) ==
    /\ Head(services[d]) = "lost"
    /\ conn' = conn \ {d}
    /\ disappeared' = disappeared \cup {d}
    /\ CancelRequests
    /\ services' = [services EXCEPT ![d] = <<>>]
    /\ UNCHANGED <<available, cycle, timer, infos, asked>>

\* RoutedDevice::fetchServicesCb.  Services other than hbkProtocol are only logged.
FetchServicesCb(d) ==
    /\ Running
    /\ services[d] # <<>>
    /\ HbkAppears(d) \/ HbkDisappears(d) \/ ConnectionLost(d)
    /\ UNCHANGED <<mainThread, fetched, inbox, linked, routed, count, crashed, up, hbk, announced, downs, faults>>

\* The connection of the Device itself is lost; nobody resumes it.
DeviceStops ==
    /\ Running
    /\ linked /\ faults < MaxFaults
    /\ faults' = faults + 1
    /\ linked' = FALSE
    /\ fetched' = "no"
    /\ inbox' = <<>>
    /\ CancelRequests
    /\ UNCHANGED <<mainThread, tester, services, cycle, timer, crashed, up, hbk, announced, asked, downs>>

-----------------------------------------------------------------------------
(* The daemon of the Device, and the devices *)

\* The daemon notifies the devices announced, then comes the result.
DaemonFetches ==
    /\ Running
    /\ fetched = "sent"
    /\ fetched' = "yes"
    /\ inbox' = Append(SetToSeq({Msg("add", d, announced[d] = "port") :
                                    d \in {e \in Devices : announced[e] # "no"}}), ResultMsg)
    /\ UNCHANGED <<mainThread, device, linked, tester, services, cycle, timer, crashed, world>>

Tells(d, s) == services' = IF d \in conn THEN [services EXCEPT ![d] = Append(@, s)] ELSE services
Announces(m) == inbox' = IF fetched = "yes" THEN Append(inbox, m) ELSE inbox
Outside == <<mainThread, device, fetched, linked, tester, cycle, timer, crashed>>

\* A device goes down, because it was asked to or not.
GoesDown(d) ==
    /\ Running
    /\ d \in up
    /\ \/ d \in asked /\ UNCHANGED faults
       \/ d \in Flaky \ asked /\ faults < MaxFaults /\ faults' = faults + 1
    /\ up' = up \ {d} /\ hbk' = hbk \ {d} /\ asked' = asked \ {d}
    /\ downs' = [downs EXCEPT ![d] = @ + 1]
    /\ Tells(d, "lost")
    /\ UNCHANGED <<Outside, inbox, announced>>

ComesUp(d) ==
    /\ Running
    /\ d \notin up
    /\ up' = up \cup {d}
    /\ UNCHANGED <<Outside, inbox, services, hbk, announced, asked, downs, faults>>

\* Its hbkProtocol service is ready later, and may fail.
ServiceChanges(d) ==
    /\ Running
    /\ d \in up
    /\ \/ d \notin hbk /\ hbk' = hbk \cup {d} /\ Tells(d, "hbk") /\ UNCHANGED faults
       \/ /\ d \in Flaky \cap hbk /\ hbk' = hbk \ {d} /\ Tells(d, "nohbk")
          /\ faults < MaxFaults /\ faults' = faults + 1
    /\ UNCHANGED <<Outside, inbox, up, announced, asked, downs>>

\* The router announces a device, exceptionally without its jet port at first or
\* once more, and withdraws it when it has noticed that it is down.
Announcement(d) ==
    /\ Running
    /\ \/ /\ d \in up /\ announced[d] # "port"
          /\ announced' = [announced EXCEPT ![d] = "port"]
          /\ Announces(Msg(IF announced[d] = "no" THEN "add" ELSE "change", d, TRUE))
          /\ UNCHANGED faults
       \/ /\ d \in Flaky \cap up /\ announced[d] = "no"
          /\ announced' = [announced EXCEPT ![d] = "noport"]
          /\ Announces(Msg("add", d, FALSE))
          /\ faults < MaxFaults /\ faults' = faults + 1
       \/ /\ d \in Flaky \cap up /\ announced[d] = "port"
          /\ Announces(Msg("change", d, TRUE))
          /\ faults < MaxFaults /\ faults' = faults + 1
          /\ UNCHANGED announced
       \/ /\ d \notin up /\ announced[d] # "no"
          /\ announced' = [announced EXCEPT ![d] = "no"]
          /\ Announces(Msg("remove", d, FALSE))
          /\ UNCHANGED faults
    /\ UNCHANGED <<Outside, services, up, hbk, asked, downs>>

-----------------------------------------------------------------------------
MainThread == FetchRegistered \/ FetchSent \/ DeviceConstructed \/ FirstReboot \/ FirstRestarts

EventLoop == ErrorNotifierFires \/ FetchRoutedCb \/ FetchResponseCb \/ \E d \in Devices : FetchServicesCb(d)

Next ==
    \/ MainThread \/ EventLoop \/ TimerFires \/ DeviceStops \/ DaemonFetches
    \/ \E d \in Devices : GoesDown(d) \/ ComesUp(d) \/ ServiceChanges(d) \/ Announcement(d)

Spec == Init /\ [][Next]_vars

\* The main thread and the event loop go on, and the daemon answers.
Fairness ==
    /\ WF_vars(MainThread)
    /\ WF_vars(EventLoop)
    /\ WF_vars(DaemonFetches)

FairSpec == Spec /\ Fairness

-----------------------------------------------------------------------------
(* Properties *)

\* The variables stay in their types; only a RoutedDevice that is kept is
\* connected or has messages to handle, and it has an appearance info.
TypeOK ==
    /\ main \in {"register", "send", "wait", "count", "restart", "join", "end"}
    /\ pending \in {"no", "open", "failed", "lost"}
    /\ fetched \in {"no", "sent", "yes"}
    /\ todo \subseteq Devices
    /\ conn \subseteq routed
    /\ routed \subseteq infos
    /\ infos \subseteq Devices
    /\ \A d \in Devices \ conn : services[d] = <<>>
    /\ available \cup disappeared \subseteq infos
    /\ cycle \in 0 .. MaxCycles
    /\ \A b \in {fetching, fetchDone, timer, crashed, linked} : b \in BOOLEAN

\* When the constructor of Device has returned, and nothing has cancelled its
\* fetch, it knows every device that was announced before the response and has
\* not gone down since: main() may count the devices.
FirstDevicesKnown ==
    main = "count" /\ fetching /\ linked =>
        \A d \in Devices : announced[d] = "port" /\ downs[d] = 0 =>
            \/ d \in routed
            \/ \E k \in DOMAIN inbox :
                  /\ inbox[k].event # "result" /\ inbox[k].dev = d
                  /\ \A j \in k .. Len(inbox) : inbox[j].event # "result"

\* checkAndReboot expects one appearance per restart: a RoutedDevice is made
\* once per start of a device, however often the device is announced.
AppearancesCountStarts == \A d \in Devices : count[d] <= downs[d] + 1

\* When all messages of a connected device are handled, its running hbkProtocol
\* service is known, and one that does not run is believed to run only if a
\* connection to the device was lost before.
AvailabilityKnown ==
    \A d \in conn : services[d] = <<>> =>
        /\ d \in hbk => d \in available
        /\ d \in available => d \in hbk \/ downs[d] > 0

\* The constructor of Device returns, also when its connection is lost, or a
\* routed device cancels its request, with one exception: the request could not
\* be sent, and its error notifier has found nothing.  (Or the bound on cycles
\* ends the behaviour.)
Constructing == main \in {"register", "send", "wait"}
ConstructorReturns == Constructing ~> ~Constructing \/ pending = "lost" \/ cycle = MaxCycles
=============================================================================
