----------------------------- MODULE InitBackends -----------------------------
(***************************************************************************)
(* The init system behind internal/services/initsys: systemd asked over a  *)
(* raw D-Bus connection, OpenRC and SysV init by their commands, and what  *)
(* the listing of the units says while units start, crash and are operated.*)
(***************************************************************************)
EXTENDS Naturals, Sequences, SequencesExt, Lists

CONSTANTS
  Units,        \* in the order they are listed
  RunsAs,       \* of each unit, the sub-state systemd has it in while it is up
  Chunk         \* strings of the reply that fit one read

\* A unit that is up: a service, a socket, a target.
Up == {"running", "listening", "active"}

ASSUME InitBackendsAssumption ==
  Units \in Seq(Nat) /\ RunsAs \in [ToSet(Units) -> Up] /\ Chunk \in Nat \ {0}

VARIABLES
  backend,
  style,        \* of each unit, what makes its state easy to read or not
  states,       \* the units as they are
  reply,        \* what the collection still has to read
  got,          \* what it has read
  phase,        \* "idle" or "reading"
  listed,       \* Snapshot.Units of this collection, as far as it has come
  seen          \* history: the states of each unit since the collection began
initVars == <<backend, style, states, reply, got, phase, listed, seen>>

Names == ToSet(Units)
\* systemd: a description to read, one that is too short or not ASCII, none at
\* all, for which systemd gives the unit's name.  OpenRC: a line of rc-status
\* with brackets on the state, or with blanks between ("[  started  ]"), or a
\* mark in /run/openrc alone.  SysV: a script with or without exit codes.
Styles(b) ==
  CASE b = "systemd" -> {"plain", "odd", "name"} [] b = "openrc" -> {"tight", "padded", "marked"}
    [] b = "sysvinit" -> {"codes", "no codes"}

\* The states OpenRC and SysV init know of, "running" being their "started".
ScriptStates == {"running", "failed", "stopped"}
States == Up \union ScriptStates \union {"exited"}

InitBackendsInit ==
  /\ backend \in {"systemd", "openrc", "sysvinit"}
  /\ style \in [Names -> Styles(backend)]
  /\ \A u, v \in Names : style[u] = "tight" => style[v] # "padded"
  /\ states = [u \in Names |-> "stopped"]
  /\ reply = <<>> /\ got = <<>> /\ phase = "idle" /\ listed = <<>>
  /\ seen = [u \in Names |-> {}]
-----------------------------------------------------------------------------
Becomes(u, s) ==
  /\ states' = [states EXCEPT ![u] = s]
  /\ seen' = [seen EXCEPT ![u] = @ \union {s}]

\* Start, Stop and Restart through systemctl, rc-service or service; what
\* Enable and Mask change is not in the listing.
Operate(op, u) ==
  /\ IF op = "stop" THEN Becomes(u, "stopped")
     ELSE \E s \in {IF backend = "systemd" THEN RunsAs[u] ELSE "running", "failed"} :
            Becomes(u, s)
  /\ UNCHANGED <<backend, style, reply, got, phase, listed>>

\* A unit ends by itself; systemd remembers a clean end of a oneshot.
Ends(u) ==
  /\ states[u] = "running"
  /\ \E s \in (IF backend = "systemd" THEN {"exited", "failed"} ELSE {"failed", "stopped"}) :
       Becomes(u, s)
  /\ UNCHANGED <<backend, style, reply, got, phase, listed>>
-----------------------------------------------------------------------------
(* systemd: the strings of the reply that are long enough and printable.   *)

Cells(u) ==
  CASE style[u] = "plain" -> <<"name", "text", "load", "active", "sub", "path">>
    [] style[u] = "odd" -> <<"name", "load", "active", "sub", "path">>
    [] style[u] = "name" -> <<"name", "name", "load", "active", "sub", "path">>
Strings(u) == [i \in DOMAIN Cells(u) |-> [what |-> Cells(u)[i], unit |-> u, state |-> states[u]]]

\* CollectSnapshot and ListUnits, of a unit with these fields: three sub-states
\* count as active, and "exited" is none of them.
ActiveState(active, sub) ==
  IF active.what \in {"active", "sub"} /\ active.state = "failed" THEN "failed"
  ELSE IF sub.what = "sub" /\ sub.state \in Up THEN "active" ELSE "inactive"

\* Mutant of UnitAt: the states are looked for where a description is left out.
UnitAtEarly(s, j) ==
  IF s[j].what # "name" THEN <<>>
  ELSE <<[unit |-> s[j].unit, shown |-> ActiveState(s[j + 2], s[j + 3])]>>

\* extractUnitsFromBytes: what looks like a name begins a unit.
UnitAt(s, j) ==
  IF s[j].what # "name" THEN <<>>
  ELSE <<[unit |-> s[j].unit, shown |-> ActiveState(s[j + 3], s[j + 4])]>>

Extracted(s) ==
  FlattenSeq([j \in 1..(IF Len(s) < 4 THEN 0 ELSE Len(s) - 4) |-> UnitAt(s, j)])

\* listUnitsViaDbus up to the reply, which is of one moment.
Ask ==
  /\ backend = "systemd" /\ phase = "idle"
  /\ reply' = FlattenSeq([i \in DOMAIN Units |-> Strings(Units[i])])
  /\ got' = <<>> /\ phase' = "reading" /\ listed' = <<>>
  /\ seen' = [u \in Names |-> {states[u]}]
  /\ UNCHANGED <<backend, style, states>>

Finish(all) ==
  /\ listed' = Extracted(all)
  /\ got' = <<>> /\ reply' = <<>> /\ phase' = "idle"

\* One conn.Read: a short one is taken for the end of the reply.
Read ==
  /\ backend = "systemd" /\ phase = "reading"
  /\ \E n \in 1..Chunk :
       /\ n <= Len(reply)
       /\ IF n = Chunk
            THEN /\ got' = got \o SubSeq(reply, 1, n)
                 /\ reply' = SubSeq(reply, n + 1, Len(reply))
                 /\ UNCHANGED <<phase, listed>>
            ELSE Finish(got \o SubSeq(reply, 1, n))
  /\ UNCHANGED <<backend, style, states, seen>>

\* The connection breaks; what has been read is used.
Break ==
  /\ backend = "systemd" /\ phase = "reading"
  /\ Finish(got)
  /\ UNCHANGED <<backend, style, states, seen>>
-----------------------------------------------------------------------------
(* OpenRC and SysV init: ReadDir, then one unit after another.             *)

\* ReadDir, and for OpenRC what rc-status says now of the units it knows.
List ==
  /\ backend # "systemd" /\ phase = "idle"
  /\ phase' = (IF Units = <<>> THEN "idle" ELSE "reading") /\ listed' = <<>>
  /\ reply' = Units
  /\ got' = IF backend = "openrc" THEN <<states>> ELSE <<>>
  /\ seen' = [u \in Names |-> {states[u]}]
  /\ UNCHANGED <<backend, style, states>>

\* What a word in a status is taken for.
Meaning(word) ==
  CASE word = "running" -> "active" [] word = "failed" -> "failed" [] OTHER -> "inactive"

\* The last field of a line of rc-status without its brackets.  Where blanks
\* stand between them and the state, that field is a bracket, and nothing is left.
LastField(u) == IF style[u] = "padded" THEN "" ELSE got[1][u]

\* OpenRC: the map of rc-status first, then the marks in /run/openrc.
OpenRC(u) == Meaning(IF style[u] = "marked" THEN states[u] ELSE LastField(u))

\* SysV: "is not running" has "running" in it, only the exit code tells.
SysVinit(u) ==
  IF style[u] = "no codes" /\ states[u] = "stopped" THEN "active" ELSE Meaning(states[u])

\* One turn of the loop of ListUnits.
Status ==
  /\ backend # "systemd" /\ phase = "reading"
  /\ LET u == Head(reply)
     IN  listed' = Append(listed,
           [unit |-> u, shown |-> IF backend = "openrc" THEN OpenRC(u) ELSE SysVinit(u)])
  /\ reply' = Tail(reply)
  /\ IF Tail(reply) = <<>> THEN phase' = "idle" /\ got' = <<>>
     ELSE UNCHANGED <<phase, got>>
  /\ UNCHANGED <<backend, style, states, seen>>

InitBackendsNext ==
  \/ \E u \in Names : Ends(u) \/ \E op \in {"start", "stop", "restart"} : Operate(op, u)
  \/ Ask \/ Read \/ Break \/ List \/ Status
-----------------------------------------------------------------------------
InitBackendsTypeOK ==
  /\ states \in [Names -> States]
  /\ phase \in {"idle", "reading"}
  /\ \A i \in DOMAIN listed : listed[i].unit \in Names
       /\ listed[i].shown \in {"active", "inactive", "failed"}

\* What the init system itself holds a unit to be: active, also when its process
\* has ended well and systemd remembers it (stateDescription's "Exited (OK)").
Truth(s) ==
  CASE s \in Up \union {"exited"} -> "active" [] s = "failed" -> "failed"
    [] OTHER -> "inactive"

\* The row says what was true of its unit at some moment since the collection
\* began.  Three exceptions: a unit of systemd that is active in a sub-state the
\* code does not know, or whose description cannot be read, may be shown
\* inactive; so is every unit whose line of rc-status has blanks inside its
\* brackets; and a stopped script of SysV init without exit codes is shown active.
RowTrue(row) ==
  LET had == seen[row.unit]
      look == style[row.unit]
  IN  \/ \E s \in had : row.shown = Truth(s)
      \/ row.shown = "inactive" /\ (look \in {"odd", "name", "padded"} \/ "exited" \in had)
      \/ row.shown = "active" /\ look = "no codes" /\ "stopped" \in had

\* With these exceptions the listing is true: no unit is shown with the state of
\* another, of a reply that ended early or was cut anywhere, or of an earlier
\* reply; and none, whatever its style, as failed that has not failed
\* (dbus.go:201, openrc.go:30).
ListingTrue == \A i \in DOMAIN listed : RowTrue(listed[i])
=============================================================================
