---------------------------- MODULE MemberChecker -----------------------------
(***************************************************************************)
(* One member of a cluster: the updates of run_member, the checker it starts   *)
(* and stops, and the two RwLocks they share (workers/clustermember.rs).  The  *)
(* cluster's worker, add_member and the checkers of other members are one task  *)
(* that reads or writes the map of statuses.                                  *)
(*                                                                         *)
(* A read guard in the scrutinee of an if let lives to the end of the          *)
(* statement: the checker holds one through its whole round, the sleep          *)
(* included, and asks for further ones inside.  run_member is the only writer of *)
(* the member, so its own reads never wait and are not steps.  Connections are   *)
(* in Dispatch, the length of the sleep and the kind of probe are left out.      *)
(***************************************************************************)
EXTENDS FairRwLock

CONSTANTS
  Keepalives,     \* records [probes, dead, live]; HttpKeepalive probes nothing
  None,           \* no keepalive
  Most            \* the highest threshold, at which the history counters saturate

ASSUME KeepalivesAssumption ==
  /\ Most \in Nat /\ Keepalives \subseteq [probes : BOOLEAN, dead : 0..Most, live : 0..Most]
  /\ None \notin Keepalives
  /\ \A k \in Keepalives : ~k.probes => k.dead = 0 /\ k.live = 0

Tasks == {"member", "checker", "cluster"}
ASSUME NobodyAssumption == Nobody \notin Tasks

VARIABLES
  lock,           \* the RwLock of the Member
  keepalive,      \* what is in it
  statuses,       \* the RwLock of the map of statuses
  status,         \* the entry of this member
  mpc,            \* run_member: "recv", or what it awaits
  wanted,         \* the keepalive of the update in hand
  checker_handle, \* whether run_member holds the handle of a checker
  cpc,            \* the checker, "off" when there is none
  upstream_status, check_counter, common_config,
  reply,          \* outcome of the last probe
  wpc,            \* the task "cluster"
  failed, answered \* history: probes of this checker that failed, were answered

member == <<mpc, wanted, checker_handle>>
counts == <<failed, answered>>
vars == <<lock, keepalive, statuses, status, member, cpc, upstream_status, check_counter,
          common_config, reply, wpc, counts>>
checked == <<upstream_status, check_counter, common_config, reply, counts>>

Init ==
  /\ lock = Unlocked(Tasks) /\ statuses = Unlocked(Tasks)
  /\ keepalive \in Keepalives \cup {None}
  /\ status \in {"Active", "Disabled"}
  /\ mpc = "recv" /\ wanted = None
  /\ checker_handle = (keepalive # None)
  /\ cpc = IF keepalive = None THEN "off" ELSE "start"
  /\ upstream_status = status /\ check_counter = 0 /\ common_config = keepalive
  /\ reply = FALSE /\ wpc = "idle"
  /\ failed = 0 /\ answered = 0

Granted(t, l) == ~Waits(l, t)
More(n) == IF n < Most THEN n + 1 ELSE n

-------------------------------------------------------------------------------
\* Faulty variants of the operations below.

\* The handle is dropped, the checker is not awaited.
JoinDoesNotWait ==
  /\ mpc \in {"join", "joinRemoved"}
  /\ checker_handle' = FALSE
  /\ mpc' = IF mpc = "join" THEN "recv" ELSE "gone"
  /\ UNCHANGED <<lock, keepalive, statuses, status, wanted, cpc, checked, wpc>>

\* Every probe counts, whatever the status.
CountsAlways == TRUE

\* One probe short.
EarnedOneShort ==
  \/ reply /\ upstream_status = "Unavailable" /\ check_counter + 2 >= common_config.live
  \/ ~reply /\ upstream_status = "Active" /\ check_counter + 2 >= common_config.dead

\* The count starts again with every round.
ForgetsCount ==
  /\ cpc = "sleep" /\ cpc' = "top" /\ check_counter' = 0
  /\ lock' = Ask(DropRead(lock, "checker"), "checker", "read")
  /\ UNCHANGED <<keepalive, statuses, status, member, upstream_status, common_config, reply,
                 wpc, counts>>

-------------------------------------------------------------------------------
\* run_member.

\* An update with another keepalive: member.write().
ReceiveUpdate(k) ==
  /\ mpc = "recv" /\ k # keepalive
  /\ mpc' = "write" /\ wanted' = k
  /\ lock' = Ask(lock, "member", "write")
  /\ UNCHANGED <<keepalive, statuses, status, checker_handle, cpc, checked, wpc>>

\* RemoveCluster: the keepalive is cleared if there is a checker to stop.
ReceiveRemove ==
  /\ mpc = "recv"
  /\ IF checker_handle
       THEN mpc' = "remove" /\ lock' = Ask(lock, "member", "write")
       ELSE mpc' = "gone" /\ UNCHANGED lock
  /\ wanted' = None
  /\ UNCHANGED <<keepalive, statuses, status, checker_handle, cpc, checked, wpc>>

\* The write guard is there for one assignment; then a checker is started, awaited
\* or left as it is.
Written ==
  /\ mpc \in {"write", "remove"} /\ Granted("member", lock)
  /\ keepalive' = wanted
  /\ lock' = DropWrite(lock)
  /\ \/ /\ wanted # None /\ ~checker_handle
        /\ checker_handle' = TRUE /\ cpc' = "start" /\ mpc' = "recv"
     \/ /\ wanted = None /\ checker_handle
        /\ mpc' = (IF mpc = "write" THEN "join" ELSE "joinRemoved")
        /\ UNCHANGED <<checker_handle, cpc>>
     \/ /\ (wanted = None) = ~checker_handle
        /\ mpc' = "recv" /\ UNCHANGED <<checker_handle, cpc>>
  /\ UNCHANGED <<statuses, status, wanted, checked, wpc>>

\* checker_handle.unwrap().await
Joined ==
  /\ mpc \in {"join", "joinRemoved"} /\ cpc = "off"
  /\ checker_handle' = FALSE
  /\ mpc' = IF mpc = "join" THEN "recv" ELSE "gone"
  /\ UNCHANGED <<lock, keepalive, statuses, status, wanted, cpc, checked, wpc>>

-------------------------------------------------------------------------------
\* checker, one action from one await to the next.
Goes(from, to) == cpc = from /\ cpc' = to

\* The status is looked up once: statuses.read(), and in it member.read().
StatusAsked ==
  /\ Goes("start", "statuses")
  /\ statuses' = Ask(statuses, "checker", "read")
  /\ UNCHANGED <<lock, keepalive, status, member, checked, wpc>>

AddressAsked ==
  /\ Goes("statuses", "address") /\ Granted("checker", statuses)
  /\ lock' = Ask(lock, "checker", "read")
  /\ UNCHANGED <<keepalive, statuses, status, member, checked, wpc>>

StatusRead ==
  /\ Goes("address", "top") /\ Granted("checker", lock)
  /\ upstream_status' = status /\ check_counter' = 0 /\ failed' = 0 /\ answered' = 0
  /\ statuses' = DropRead(statuses, "checker")
  /\ lock' = Ask(DropRead(lock, "checker"), "checker", "read")
  /\ UNCHANGED <<keepalive, status, member, common_config, reply, wpc>>

\* The top of the loop: without a keepalive the checker is over, with one the guard
\* is kept for the round.
Leaves ==
  /\ Goes("top", "off") /\ Granted("checker", lock) /\ keepalive = None
  /\ lock' = DropRead(lock, "checker")
  /\ UNCHANGED <<keepalive, statuses, status, member, checked, wpc>>

RoundStarts ==
  /\ cpc = "top" /\ Granted("checker", lock) /\ keepalive # None
  /\ common_config' = keepalive
  /\ IF keepalive.probes THEN cpc' = "probe" /\ UNCHANGED reply
     ELSE cpc' = "rtt" /\ reply' = TRUE
  /\ lock' = Ask(lock, "checker", "read")
  /\ UNCHANGED <<keepalive, statuses, status, member, upstream_status, check_counter, wpc,
                 counts>>

\* The probe is over, answered or not; the guard of its argument is dropped, that of the first
\* metric asked for.
Probed ==
  /\ cpc = "probe" /\ Granted("checker", lock)
  /\ reply' \in BOOLEAN
  /\ cpc' = IF reply' THEN "rtt" ELSE "availability"
  /\ failed' = (IF reply' THEN failed ELSE More(failed))
  /\ answered' = (IF reply' THEN More(answered) ELSE answered)
  /\ lock' = Ask(DropRead(lock, "checker"), "checker", "read")
  /\ UNCHANGED <<keepalive, statuses, status, member, upstream_status, check_counter,
                 common_config, wpc>>

RttSent ==
  /\ Goes("rtt", "availability") /\ Granted("checker", lock)
  /\ lock' = Ask(DropRead(lock, "checker"), "checker", "read")
  /\ UNCHANGED <<keepalive, statuses, status, member, checked, wpc>>

\* Only the outcome that speaks against the status read at the start counts.
Counts ==
  \/ reply /\ upstream_status = "Unavailable"
  \/ ~reply /\ upstream_status = "Active"
Earned ==
  \/ reply /\ upstream_status = "Unavailable" /\ check_counter + 1 >= common_config.live
  \/ ~reply /\ upstream_status = "Active" /\ check_counter + 1 >= common_config.dead

Judged ==
  /\ cpc = "availability" /\ Granted("checker", lock)
  /\ lock' = DropRead(lock, "checker")
  /\ check_counter' = (IF Earned THEN 0 ELSE IF Counts THEN check_counter + 1 ELSE check_counter)
  /\ IF Earned THEN cpc' = "verdict" /\ statuses' = Ask(statuses, "checker", "write")
     ELSE cpc' = "sleep" /\ UNCHANGED statuses
  /\ UNCHANGED <<keepalive, status, member, upstream_status, common_config, reply, wpc,
                 counts>>

\* statuses.write() is held while the key of the entry is read from the member.
KeyAsked ==
  /\ Goes("verdict", "key") /\ Granted("checker", statuses)
  /\ lock' = Ask(lock, "checker", "read")
  /\ UNCHANGED <<keepalive, statuses, status, member, checked, wpc>>

StatusWritten ==
  /\ Goes("key", "sleep") /\ Granted("checker", lock)
  /\ status' = IF reply THEN "Active" ELSE "Unavailable"
  /\ statuses' = DropWrite(statuses)
  /\ lock' = DropRead(lock, "checker")
  /\ UNCHANGED <<keepalive, member, checked, wpc>>

\* The sleep is over and with it the round: its guard is dropped.
Wakes ==
  /\ Goes("sleep", "top")
  /\ lock' = Ask(DropRead(lock, "checker"), "checker", "read")
  /\ UNCHANGED <<keepalive, statuses, status, member, checked, wpc>>

-------------------------------------------------------------------------------
\* Everybody else who uses the map: the worker for each request, add_member and the
\* other checkers for an entry of their own.
OthersAsk(mode) ==
  /\ wpc = "idle" /\ wpc' = mode
  /\ statuses' = Ask(statuses, "cluster", mode)
  /\ UNCHANGED <<lock, keepalive, status, member, cpc, checked>>

OthersDone ==
  /\ wpc # "idle" /\ Granted("cluster", statuses) /\ wpc' = "idle"
  /\ statuses' = IF wpc = "read" THEN DropRead(statuses, "cluster") ELSE DropWrite(statuses)
  /\ UNCHANGED <<lock, keepalive, status, member, cpc, checked>>

MemberStep  == Written \/ Joined
CheckerStep ==
  \/ StatusAsked \/ AddressAsked \/ StatusRead \/ Leaves \/ RoundStarts \/ Probed
  \/ RttSent \/ Judged \/ KeyAsked \/ StatusWritten \/ Wakes

Next ==
  \/ MemberStep \/ CheckerStep \/ OthersDone
  \/ \E k \in Keepalives \cup {None} : ReceiveUpdate(k)
  \/ ReceiveRemove
  \/ \E mode \in {"read", "write"} : OthersAsk(mode)

Spec == Init /\ [][Next]_vars

\* A task that was granted its guard, whose probe timed out or whose sleep is over is
\* polled.  Nobody has to send updates or requests.
FairSpec == Spec /\ WF_vars(MemberStep) /\ WF_vars(CheckerStep) /\ WF_vars(OthersDone)

-------------------------------------------------------------------------------
TypeOK ==
  /\ lock \in LockOf(Tasks, 2) /\ statuses \in LockOf(Tasks, 2)
  /\ keepalive \in Keepalives \cup {None} /\ wanted \in Keepalives \cup {None}
  /\ status \in {"Active", "Disabled", "Unavailable"}
  /\ upstream_status \in {"Active", "Disabled", "Unavailable"}
  /\ mpc \in {"recv", "write", "remove", "join", "joinRemoved", "gone"}
  /\ checker_handle \in BOOLEAN
  /\ cpc \in {"off", "start", "statuses", "address", "top", "probe", "rtt", "availability",
              "verdict", "key", "sleep"}
  /\ check_counter \in 0..Most /\ common_config \in Keepalives \cup {None}
  /\ reply \in BOOLEAN /\ wpc \in {"idle", "read", "write"}
  /\ failed \in 0..Most /\ answered \in 0..Most

\* No checker runs that nobody holds the handle of, and a member that was removed
\* leaves none behind: stopping and starting by updates, however fast, never makes
\* two of them.
CheckerHasItsHandle ==
  /\ cpc # "off" => checker_handle
  /\ mpc = "gone" => cpc = "off" /\ ~checker_handle

\* A status is changed only by as many probes of the running checker as the
\* keepalive of that round asks for.
VerdictIsEarned ==
  [][status' # status =>
       IF status' = "Unavailable" THEN failed >= common_config.dead
       ELSE common_config.probes => answered >= common_config.live]_vars

\* run_member queues for the write guard behind the checker's round, and the checker
\* for one more read guard behind run_member.
LockedUp ==
  /\ mpc \in {"write", "remove"} /\ Waits(lock, "member")
  /\ Waits(lock, "checker") /\ lock.readers["checker"] > 0

\* An update of the keepalive, or the removal of the member, takes effect and the old
\* checker ends, or the two are locked up for good in that one way.
UpdateEndsOrLocksUp ==
  (mpc \notin {"recv", "gone"}) ~> (mpc \in {"recv", "gone"} \/ []LockedUp)

\* Whoever needs the statuses of the cluster, and with it every request of every
\* member, waits for ever only for a checker locked up with their write guard.
OthersGoOnOrLockUp ==
  (wpc # "idle") ~> (wpc = "idle" \/ [](LockedUp /\ statuses.writer = "checker"))

\* No update arrives and the member is not removed.
Undisturbed == [](mpc = "recv")

\* Then a member that at some time stops answering is given up, whatever it did before,
\* unless its keepalive probes nothing or it is Disabled; and one that was given up never
\* comes back, however well it answers: the checker compares with the status it read when
\* it was started.
DownIsNoticed ==
  Undisturbed =>
    /\ (/\ keepalive \in {k \in Keepalives : k.probes}
        /\ status = "Active" /\ <>[][Probed => ~reply']_vars) => <>(status = "Unavailable")
    /\ [](status = "Unavailable" => [](status = "Unavailable"))

===============================================================================
