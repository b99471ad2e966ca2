----------------------------- MODULE Lifecycle ------------------------------
(***************************************************************************)
(* main.go, internal/registry/registry.go, the Start loops of the          *)
(* collectors under internal/services and the listeners of the tabs: how a *)
(* snapshot gets from a collector to the screen, and how all of it stops.  *)
(*                                                                         *)
(* The registry starts two goroutines per service: the collector (Start)   *)
(* and a bridge that publishes what Start sends on its output channel.     *)
(* The five shapes of Start loop that the registered services have are the *)
(* kinds below.  Docker's Start ("background") and dmesg's ("stream") run  *)
(* a helper goroutine of their own, which the registry does not wait for.  *)
(*                                                                         *)
(* A snapshot is the number of the reading it holds, counted per service,  *)
(* so that order and repetition can be observed.  The bus is its lossy     *)
(* fan-out promise (module LossyFanout) with the one channel by which the  *)
(* screen listens to a topic.  A reading always returns in the end.        *)
(***************************************************************************)
EXTENDS Naturals, Sequences, FiniteSets

CONSTANTS
  Services,     \* the registered services
  Kinds,        \* the shapes of Start loop they may have
  OutCap,       \* capacity of a service's output channel (4; dmesg 16)
  BusCap,       \* bus.bufferSize, 16
  LineCap,      \* capacity of dmesg's readCh, 64
  MaxReadings   \* bound: readings a service makes

AllKinds == {"ticker", "seeded", "initial", "background", "stream"}

ASSUME LifecycleAssumption ==
  /\ IsFiniteSet(Services)
  /\ Kinds \subseteq AllKinds
  /\ {OutCap, BusCap, LineCap} \subseteq Nat \ {0}
  /\ MaxReadings \in Nat \ {0}

VARIABLES
  main,       \* where main is
  failed,     \* p.Run returned an error
  toStop,     \* services StopAll's loop has still to Stop
  cancelled,  \* the context given to StartAll is cancelled
  wg,         \* Registry.wg
  kind,       \* kind[s]: the shape of its Start loop
  armed,      \* services whose cancel field is set
  stopped,    \* services whose own context Stop cancelled
  at,         \* at[s]: where its collector goroutine is
  hand,       \* hand[s]: the snapshot the collector is about to send, or 0
  helper,     \* helper[s]: where its helper goroutine is
  carry,      \* carry[s]: the reading the helper holds, or 0
  lines,      \* lines[s]: readCh, the lines read from /dev/kmsg
  batch,      \* batch[s]: the newest line batched, 0 when the batch is empty
  out,        \* out[s]: the buffered snapshots of its output channel
  bridge,     \* bridge[s]: where its bridge goroutine is
  relay,      \* relay[s]: the snapshot the bridge is about to publish, or 0
  inbox,      \* inbox[s]: the buffered snapshots of its topic's channel
  shown,      \* shown[s]: the snapshot on the screen, 0 before the first
  health,     \* health[s]: what Health() answers
  taken       \* taken[s]: readings made so far

mainVars == <<main, failed, toStop, cancelled>>
collectorVars == <<at, hand, batch, health>>
helperVars == <<helper, carry, lines>>
bridgeVars == <<bridge, relay>>
screenVars == <<inbox, shown>>
ctxVars == <<kind, armed, stopped>>
vars == <<mainVars, wg, ctxVars, collectorVars, helperVars, out, bridgeVars,
          screenVars, taken>>

Reading == 0 .. MaxReadings

Done(s) == cancelled \/ s \in stopped           \* <-ctx.Done() is ready

Init ==
  /\ main = "starting"
  /\ failed = FALSE
  /\ toStop = {}
  /\ cancelled = FALSE
  /\ wg = 0
  /\ kind \in [Services -> Kinds]
  /\ armed = {}
  /\ stopped = {}
  /\ at = [s \in Services |-> "unborn"]
  /\ hand = [s \in Services |-> 0]
  /\ helper = [s \in Services |-> "none"]
  /\ carry = [s \in Services |-> 0]
  /\ lines = [s \in Services |-> <<>>]
  /\ batch = [s \in Services |-> 0]
  /\ out = [s \in Services |-> <<>>]
  /\ bridge = [s \in Services |-> "unborn"]
  /\ relay = [s \in Services |-> 0]
  /\ inbox = [s \in Services |-> <<>>]
  /\ shown = [s \in Services |-> 0]
  /\ health = [s \in Services |-> "OK"]
  /\ taken = [s \in Services |-> 0]
-----------------------------------------------------------------------------
(* main: StartAll, the screen, the shutdown.                               *)

\* Mutant of Spawn: only the collector is counted, not its bridge.
SpawnUncounted(s) ==
  /\ main = "starting"
  /\ at[s] = "unborn"
  /\ wg' = wg + 1
  /\ at' = [at EXCEPT ![s] = "born"]
  /\ bridge' = [bridge EXCEPT ![s] = "select"]
  /\ UNCHANGED <<mainVars, ctxVars, hand, batch, health, helperVars, out, relay,
                 screenVars, taken>>

\* One turn of StartAll's loop: wg.Add, go bridge, wg.Add, go Start.
Spawn(s) ==
  /\ main = "starting"
  /\ at[s] = "unborn"
  /\ wg' = wg + 2
  /\ at' = [at EXCEPT ![s] = "born"]
  /\ bridge' = [bridge EXCEPT ![s] = "select"]
  /\ UNCHANGED <<mainVars, ctxVars, hand, batch, health, helperVars, out, relay,
                 screenVars, taken>>

\* ui.New subscribes the tabs to their topics; then p.Run listens.
Subscribe ==
  /\ main = "starting"
  /\ \A s \in Services : at[s] # "unborn"
  /\ main' = "running"
  /\ UNCHANGED <<failed, toStop, cancelled, wg, ctxVars, collectorVars, helperVars,
                 out, bridgeVars, screenVars, taken>>

\* A tab's listener delivers the next snapshot, the tab shows it and listens.
Show(s) ==
  /\ main = "running"
  /\ inbox[s] # <<>>
  /\ shown' = [shown EXCEPT ![s] = Head(inbox[s])]
  /\ inbox' = [inbox EXCEPT ![s] = Tail(@)]
  /\ UNCHANGED <<mainVars, wg, ctxVars, collectorVars, helperVars, out, bridgeVars,
                 taken>>

\* p.Run returns: q, ctrl+c, a signal, or an error of the terminal.
Quit ==
  /\ main = "running"
  /\ main' = "cancelling"
  /\ failed' \in BOOLEAN
  /\ UNCHANGED <<toStop, cancelled, wg, ctxVars, collectorVars, helperVars, out,
                 bridgeVars, screenVars, taken>>

\* Mutant of Cancel: the services' own Stop is trusted to end them.
CancelForgotten ==
  /\ main = "cancelling"
  /\ main' = "stopping"
  /\ toStop' = Services
  /\ UNCHANGED <<failed, cancelled, wg, ctxVars, collectorVars, helperVars, out,
                 bridgeVars, screenVars, taken>>

\* cancelSvcs(), then r.cancel() on the context StartAll derived from it.
Cancel ==
  /\ main = "cancelling"
  /\ main' = "stopping"
  /\ cancelled' = TRUE
  /\ toStop' = Services
  /\ UNCHANGED <<failed, wg, ctxVars, collectorVars, helperVars, out, bridgeVars,
                 screenVars, taken>>

\* svc.Stop(): cancels the context Start derived, nothing when there is none.
Stop(s) ==
  /\ main = "stopping"
  /\ s \in toStop
  /\ toStop' = toStop \ {s}
  /\ stopped' = stopped \cup ({s} \cap armed)
  /\ UNCHANGED <<main, failed, cancelled, wg, kind, armed, collectorVars, helperVars,
                 out, bridgeVars, screenVars, taken>>

\* r.wg.Wait() returns; after a terminal error main exits without b.Close().
Wait ==
  /\ main = "stopping"
  /\ toStop = {}
  /\ wg = 0
  /\ main' = IF failed THEN "exited" ELSE "closing"
  /\ UNCHANGED <<failed, toStop, cancelled, wg, ctxVars, collectorVars, helperVars,
                 out, bridgeVars, screenVars, taken>>

\* b.Close(), and main returns.
CloseBus ==
  /\ main = "closing"
  /\ main' = "exited"
  /\ UNCHANGED <<failed, toStop, cancelled, wg, ctxVars, collectorVars, helperVars,
                 out, bridgeVars, screenVars, taken>>
-----------------------------------------------------------------------------
(* The collector goroutine of a service: Start.                            *)

\* ctx, s.cancel = context.WithCancel(ctx), and what precedes the loop.
Begin(s) ==
  /\ at[s] = "born"
  /\ armed' = armed \cup {s}
  /\ \/ /\ kind[s] = "ticker"
        /\ at' = [at EXCEPT ![s] = "loop"]
        /\ UNCHANGED <<hand, helper, health, taken>>
     \/ /\ kind[s] = "initial"
        /\ at' = [at EXCEPT ![s] = "collect"]
        /\ UNCHANGED <<hand, helper, health, taken>>
     \/ /\ kind[s] = "seeded"
        /\ at' = [at EXCEPT ![s] = "seed"]
        /\ UNCHANGED <<hand, helper, health, taken>>
     \/ /\ kind[s] \in {"background", "stream"}
        /\ at' = [at EXCEPT ![s] = "loop"]
        /\ helper' = [helper EXCEPT ![s] = "read"]
        /\ UNCHANGED <<hand, health, taken>>
     \/ /\ kind[s] = "background"        \* newDockerClient fails
        /\ taken' = [taken EXCEPT ![s] = @ + 1]
        /\ hand' = [hand EXCEPT ![s] = taken'[s]]
        /\ health' = [health EXCEPT ![s] = "Down"]
        /\ at' = [at EXCEPT ![s] = "report"]
        /\ UNCHANGED helper
     \/ /\ kind[s] = "stream"            \* streaming is disabled
        /\ at' = [at EXCEPT ![s] = "await"]
        /\ UNCHANGED <<hand, helper, health, taken>>
     \/ /\ kind[s] = "stream"            \* /dev/kmsg does not open
        /\ health' = [health EXCEPT ![s] = "Down"]
        /\ at' = [at EXCEPT ![s] = "await"]
        /\ UNCHANGED <<hand, helper, taken>>
  /\ UNCHANGED <<mainVars, wg, kind, stopped, carry, lines, batch, out, bridgeVars,
                 screenVars>>

\* cpu reads /proc/stat once before its loop.
SeedOk(s) ==
  /\ at[s] = "seed"
  /\ at' = [at EXCEPT ![s] = "loop"]
  /\ UNCHANGED <<mainVars, wg, ctxVars, hand, batch, health, helperVars, out,
                 bridgeVars, screenVars, taken>>

SeedFails(s) ==
  /\ at[s] = "seed"
  /\ at' = [at EXCEPT ![s] = "ended"]
  /\ health' = [health EXCEPT ![s] = "Down"]
  /\ wg' = wg - 1
  /\ UNCHANGED <<mainVars, ctxVars, hand, batch, helperVars, out, bridgeVars,
                 screenVars, taken>>

\* case <-ticker.C: of every loop but dmesg's.  The bound leaves room for the
\* one reading that docker's helper may still have to make.
Tick(s) ==
  /\ at[s] = "loop"
  /\ kind[s] # "stream"
  /\ taken[s] + (IF helper[s] = "read" THEN 1 ELSE 0) < MaxReadings
  /\ at' = [at EXCEPT ![s] = "collect"]
  /\ UNCHANGED <<mainVars, wg, ctxVars, hand, batch, health, helperVars, out,
                 bridgeVars, screenVars, taken>>

\* collect() returns a snapshot.  A failed listing is one too ("unavailable")
\* for docker, which then reports Down, and for the kinds without an error path.
Collect(s) ==
  /\ at[s] = "collect"
  /\ taken' = [taken EXCEPT ![s] = @ + 1]
  /\ hand' = [hand EXCEPT ![s] = taken'[s]]
  /\ at' = [at EXCEPT ![s] = "send"]
  /\ \/ health' = [health EXCEPT ![s] = "OK"]
     \/ /\ kind[s] = "background"
        /\ health' = [health EXCEPT ![s] = "Down"]
  /\ UNCHANGED <<mainVars, wg, ctxVars, batch, helperVars, out, bridgeVars, screenVars>>

\* collect() returns an error: Degraded, and back to the select.
CollectFails(s) ==
  /\ at[s] = "collect"
  /\ kind[s] \in {"ticker", "seeded"}
  /\ health' = [health EXCEPT ![s] = "Degraded"]
  /\ at' = [at EXCEPT ![s] = "loop"]
  /\ UNCHANGED <<mainVars, wg, ctxVars, hand, batch, helperVars, out, bridgeVars,
                 screenVars, taken>>

\* A panic while reading, or in NewTicker when initsys is given an interval of
\* 0 (validate lets systemd_interval pass), ends the goroutine; the registry
\* recovers it.
CollectPanics(s) ==
  /\ at[s] = "collect"
  /\ at' = [at EXCEPT ![s] = "ended"]
  /\ wg' = wg - 1
  /\ UNCHANGED <<mainVars, ctxVars, hand, batch, health, helperVars, out, bridgeVars,
                 screenVars, taken>>

Room(s) == Len(out[s]) < OutCap

\* Mutant of Send: appended without looking at the room there is.
SendUnbounded(s) ==
  /\ at[s] \in {"send", "report"}
  /\ out' = [out EXCEPT ![s] = Append(@, hand[s])]
  /\ hand' = [hand EXCEPT ![s] = 0]
  /\ at' = [at EXCEPT ![s] = IF at[s] = "report" THEN "await" ELSE "loop"]
  /\ UNCHANGED <<mainVars, wg, ctxVars, batch, health, helperVars, bridgeVars,
                 screenVars, taken>>

\* select { case s.out <- snap: default: }
Send(s) ==
  /\ at[s] \in {"send", "report"}
  /\ out' = [out EXCEPT ![s] = IF Room(s) THEN Append(@, hand[s]) ELSE @]
  /\ hand' = [hand EXCEPT ![s] = 0]
  /\ at' = [at EXCEPT ![s] = IF at[s] = "report" THEN "await" ELSE "loop"]
  /\ UNCHANGED <<mainVars, wg, ctxVars, batch, health, helperVars, bridgeVars,
                 screenVars, taken>>

\* dmesg, case line, ok := <-readCh: the line joins the batch, if it parses.
TakeLine(s) ==
  /\ at[s] = "loop"
  /\ lines[s] # <<>>
  /\ lines' = [lines EXCEPT ![s] = Tail(@)]
  /\ batch' \in {batch, [batch EXCEPT ![s] = Head(lines[s])]}
  /\ UNCHANGED <<mainVars, wg, ctxVars, at, hand, health, helper, carry, out,
                 bridgeVars, screenVars, taken>>

\* dmesg, the same case on the closed and drained readCh: return nil.
LinesEnd(s) ==
  /\ at[s] = "loop"
  /\ kind[s] = "stream"
  /\ helper[s] = "closed"
  /\ lines[s] = <<>>
  /\ at' = [at EXCEPT ![s] = "ended"]
  /\ wg' = wg - 1
  /\ UNCHANGED <<mainVars, ctxVars, hand, batch, health, helperVars, out, bridgeVars,
                 screenVars, taken>>

\* Mutant of Flush: the batch is sent but not emptied.
FlushKeepsBatch(s) ==
  /\ at[s] = "loop"
  /\ batch[s] # 0
  /\ hand' = [hand EXCEPT ![s] = batch[s]]
  /\ at' = [at EXCEPT ![s] = "send"]
  /\ UNCHANGED <<mainVars, wg, ctxVars, batch, health, helperVars, out, bridgeVars,
                 screenVars, taken>>

\* dmesg, case <-flushTicker.C: the batch becomes a snapshot and is emptied.
Flush(s) ==
  /\ at[s] = "loop"
  /\ batch[s] # 0
  /\ hand' = [hand EXCEPT ![s] = batch[s]]
  /\ batch' = [batch EXCEPT ![s] = 0]
  /\ at' = [at EXCEPT ![s] = "send"]
  /\ UNCHANGED <<mainVars, wg, ctxVars, health, helperVars, out, bridgeVars,
                 screenVars, taken>>

\* case <-ctx.Done(): return nil, and the registry's deferred wg.Done().
Return(s) ==
  /\ at[s] \in {"loop", "await"}
  /\ Done(s)
  /\ at' = [at EXCEPT ![s] = "ended"]
  /\ wg' = wg - 1
  /\ UNCHANGED <<mainVars, ctxVars, hand, batch, health, helperVars, out, bridgeVars,
                 screenVars, taken>>
-----------------------------------------------------------------------------
(* The helper goroutine of docker (one reading, sent in the background) and *)
(* of dmesg (a line at a time, until the scanner ends).                     *)

\* Docker's is collect(), which reports on the daemon unless Start has already
\* returned and taken the client away; dmesg's is one turn of the scanner.
Read(s) ==
  /\ main # "exited"
  /\ helper[s] = "read"
  /\ kind[s] = "stream" => taken[s] < MaxReadings
  /\ taken' = [taken EXCEPT ![s] = @ + 1]
  /\ carry' = [carry EXCEPT ![s] = taken'[s]]
  /\ helper' = [helper EXCEPT ![s] = "give"]
  /\ \/ health' = health /\ (kind[s] = "stream" \/ at[s] = "ended")
     \/ /\ kind[s] = "background"
        /\ \E state \in {"OK", "Down"} : health' = [health EXCEPT ![s] = state]
  /\ UNCHANGED <<mainVars, wg, ctxVars, at, hand, batch, lines, out, bridgeVars,
                 screenVars>>

\* docker: select { case s.out <- s.collect(ctx): default: }, and it is over.
Give(s) ==
  /\ main # "exited"
  /\ helper[s] = "give"
  /\ kind[s] = "background"
  /\ out' = [out EXCEPT ![s] = IF Room(s) THEN Append(@, carry[s]) ELSE @]
  /\ carry' = [carry EXCEPT ![s] = 0]
  /\ helper' = [helper EXCEPT ![s] = "over"]
  /\ UNCHANGED <<mainVars, wg, ctxVars, collectorVars, lines, bridgeVars, screenVars,
                 taken>>

\* dmesg: select { case readCh <- line: case <-ctx.Done(): return }
GiveLine(s) ==
  /\ main # "exited"
  /\ helper[s] = "give"
  /\ kind[s] = "stream"
  /\ Len(lines[s]) < LineCap
  /\ lines' = [lines EXCEPT ![s] = Append(@, carry[s])]
  /\ carry' = [carry EXCEPT ![s] = 0]
  /\ helper' = [helper EXCEPT ![s] = "read"]
  /\ UNCHANGED <<mainVars, wg, ctxVars, collectorVars, out, bridgeVars, screenVars,
                 taken>>

AbandonLine(s) ==
  /\ main # "exited"
  /\ helper[s] = "give"
  /\ kind[s] = "stream"
  /\ Done(s)
  /\ carry' = [carry EXCEPT ![s] = 0]
  /\ helper' = [helper EXCEPT ![s] = "over"]
  /\ UNCHANGED <<mainVars, wg, ctxVars, collectorVars, lines, out, bridgeVars,
                 screenVars, taken>>

\* dmesg: the scanner ends (a read error, a closed file): close(readCh).
EndOfLines(s) ==
  /\ main # "exited"
  /\ helper[s] = "read"
  /\ kind[s] = "stream"
  /\ helper' = [helper EXCEPT ![s] = "closed"]
  /\ UNCHANGED <<mainVars, wg, ctxVars, collectorVars, carry, lines, out, bridgeVars,
                 screenVars, taken>>
-----------------------------------------------------------------------------
(* The bridge goroutine of a service.                                      *)

\* case snapshot := <-out
Relay(s) ==
  /\ bridge[s] = "select"
  /\ out[s] # <<>>
  /\ relay' = [relay EXCEPT ![s] = Head(out[s])]
  /\ out' = [out EXCEPT ![s] = Tail(@)]
  /\ bridge' = [bridge EXCEPT ![s] = "publish"]
  /\ UNCHANGED <<mainVars, wg, ctxVars, collectorVars, helperVars, screenVars, taken>>

Listening == main \notin {"starting", "exited"}

\* r.bus.Publish: lost when nobody has subscribed yet or the channel is full.
Publish(s) ==
  /\ bridge[s] = "publish"
  /\ inbox' = [inbox EXCEPT ![s] = IF Listening /\ Len(@) < BusCap
                                     THEN Append(@, relay[s]) ELSE @]
  /\ relay' = [relay EXCEPT ![s] = 0]
  /\ bridge' = [bridge EXCEPT ![s] = "select"]
  /\ UNCHANGED <<mainVars, wg, ctxVars, collectorVars, helperVars, out, shown, taken>>

\* case <-ctx.Done(): the registry's context, which Stop does not cancel.
BridgeReturn(s) ==
  /\ bridge[s] = "select"
  /\ cancelled
  /\ bridge' = [bridge EXCEPT ![s] = "ended"]
  /\ wg' = wg - 1
  /\ UNCHANGED <<mainVars, ctxVars, collectorVars, helperVars, out, relay, screenVars,
                 taken>>
-----------------------------------------------------------------------------
Collector(s) ==
  \/ Begin(s) \/ SeedOk(s) \/ SeedFails(s) \/ Tick(s) \/ Collect(s)
  \/ CollectFails(s) \/ CollectPanics(s) \/ Send(s) \/ TakeLine(s) \/ LinesEnd(s)
  \/ Flush(s) \/ Return(s)

Helper(s) == Read(s) \/ Give(s) \/ GiveLine(s) \/ AbandonLine(s) \/ EndOfLines(s)

Bridge(s) == Relay(s) \/ Publish(s) \/ BridgeReturn(s)

Main ==
  \/ Subscribe \/ Quit \/ Cancel \/ Wait \/ CloseBus
  \/ \E s \in Services : Spawn(s) \/ Show(s) \/ Stop(s)

Next == Main \/ \E s \in Services : Collector(s) \/ Helper(s) \/ Bridge(s)

Spec == Init /\ [][Next]_vars

\* Goroutines that can run do, main's shutdown goes on once begun, a reading
\* returns, and a select whose ctx.Done() stays ready picks it in the end.
\* Nothing makes the user quit or a ticker fire.
Fairness ==
  /\ WF_vars(Cancel \/ Wait \/ CloseBus \/ \E s \in Services : Stop(s))
  /\ \A s \in Services :
       /\ WF_vars(Begin(s)) /\ WF_vars(SeedOk(s) \/ SeedFails(s))
       /\ WF_vars(Collect(s) \/ CollectFails(s) \/ CollectPanics(s))
       /\ WF_vars(Send(s)) /\ SF_vars(Return(s))
       /\ WF_vars(Publish(s)) /\ SF_vars(BridgeReturn(s))

FairSpec == Spec /\ Fairness
-----------------------------------------------------------------------------
TypeOK ==
  /\ main \in {"starting", "running", "cancelling", "stopping", "closing", "exited"}
  /\ failed \in BOOLEAN
  /\ toStop \subseteq Services
  /\ cancelled \in BOOLEAN
  /\ wg \in Nat
  /\ kind \in [Services -> Kinds]
  /\ armed \subseteq Services
  /\ stopped \subseteq armed
  /\ at \in [Services -> {"unborn", "born", "seed", "loop", "collect", "send",
                         "report", "await", "ended"}]
  /\ hand \in [Services -> Reading]
  /\ helper \in [Services -> {"none", "read", "give", "over", "closed"}]
  /\ carry \in [Services -> Reading]
  /\ lines \in [Services -> Seq(Reading)]
  /\ batch \in [Services -> Reading]
  /\ out \in [Services -> Seq(Reading)]
  /\ bridge \in [Services -> {"unborn", "select", "publish", "ended"}]
  /\ relay \in [Services -> Reading]
  /\ inbox \in [Services -> Seq(Reading)]
  /\ shown \in [Services -> Reading]
  /\ health \in [Services -> {"OK", "Degraded", "Down"}]
  /\ taken \in [Services -> Reading]
  /\ \A s \in Services :
       Len(lines[s]) <= LineCap /\ Len(out[s]) <= OutCap /\ Len(inbox[s]) <= BusCap

\* When main closes the bus, or exits, every collector and every bridge has
\* returned: StopAll "waits for them to exit" (registry.go), so that nothing
\* can publish on a closed bus.
QuietAfterStop ==
  main \in {"closing", "exited"} =>
    \A s \in Services : at[s] = "ended" /\ bridge[s] = "ended"

Held(n) == IF n = 0 THEN <<>> ELSE <<n>>

\* What a service has on its way from the screen back to its readings.
Line(s) ==
  Held(shown[s]) \o inbox[s] \o Held(relay[s]) \o out[s] \o Held(hand[s])
    \o Held(batch[s]) \o lines[s] \o Held(carry[s])

Increasing(q) == \A i, j \in DOMAIN q : i < j => q[i] < q[j]

\* A screen never goes back to an older reading and never shows one twice, and
\* no log line is shown after a later one: between a reading and the screen
\* everything stands in the order it was read.  Docker is left out: its first
\* listing is sent by a goroutine of its own, which its ticker may overtake.
InOrder ==
  \A s \in Services : kind[s] # "background" => Increasing(Line(s))

\* Once p.Run has returned the process exits, whatever the collectors were
\* doing, even those whose Start has not run yet when Stop is called.
QuitExits == main = "cancelling" ~> main = "exited"

\* service.go: Health "returns the current operational state of the service":
\* one whose Start returned while the program still runs is not OK.
HealthTellsEnd ==
  \A s \in Services : at[s] = "ended" /\ ~cancelled => health[s] # "OK"
=============================================================================
