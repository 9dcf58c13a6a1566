----------------------------- MODULE MCRuntime -----------------------------
(***************************************************************************)
(* The process for TLC, with one signal, one packet, one query with a      *)
(* callback and one event; and, apart from it, what its tasks do to two    *)
(* players who strike each other, one of whom casts spells, and what       *)
(* scripts hold while they call each other.  Each behaviour has one of     *)
(* them at work: the process as it starts when it is not, the others out   *)
(* of it (Off).                                                            *)
(***************************************************************************)
EXTENDS Runtime, Casting, Scripts

VARIABLE part

MCSpells ==
  {[group |-> "combat", effect |-> "strike", cost |-> 1, cooldown |-> 2, param |-> TRUE],
   [group |-> "heal", effect |-> "heal", cost |-> 1, cooldown |-> 1, param |-> FALSE],
   [group |-> "heal", effect |-> "shield", cost |-> 1, cooldown |-> 2, param |-> FALSE]}
MCScript == {Watch, [Watch EXCEPT !.spares = TRUE],
             [Watch EXCEPT !.health = 1, !.heals = TRUE], [Watch EXCEPT !.health = 2, !.mana = 1]}
MCWeary == [mana |-> 1, health |-> 1]

Off == <<>>

ProcessInit ==
  /\ part \in {"process", "casting", "scripts"}
  /\ Init
  /\ IF part = "casting" THEN CastingInit ELSE cst = Off
  /\ IF part = "scripts" THEN ScriptsInit ELSE scr = Off

ProcessNext ==
  /\ UNCHANGED part
  /\ \/ part = "process" /\ Next /\ UNCHANGED <<cst, scr>>
     \/ part = "casting" /\ CastingNext /\ UNCHANGED <<vars, scr>>
     \/ part = "scripts" /\ ScriptsNext /\ UNCHANGED <<vars, cst>>

\* The fairness of the process, when it is at work.
ProcessFairness ==
  /\ WF_vars(part = "process" /\ DispatcherStep)
  /\ WF_vars(part = "process" /\ WorkerStep)
  /\ WF_vars(part = "process" /\ SchedStep)
  /\ WF_vars(part = "process" /\ MainStep)
  /\ \A id \in S!EventId : WF_vars(part = "process" /\ TimePasses(id))

ProcessSpec == ProcessInit /\ [][ProcessNext]_<<part, vars, cst, scr>> /\ ProcessFairness

\* Composed with the others, each component keeps the fairness its own module
\* gives it: the bodies of tasks do return, flush ends, nobody blocks anybody.
ComponentsGoOn ==
  /\ WF_dVars(part = "process" /\ D!ThreadMain)
  /\ \A t \in {Main, Disp, Sched, Worker} : WF_dVars(part = "process" /\ D!Notify(t))
  /\ WF_bVars(part = "process" /\ B!DbThreadMain)
  /\ WF_bVars(part = "process" /\ B!DbFinishCall(Disp))
  /\ WF_sVars(part = "process" /\ S!RunHandler)
  /\ \A id \in S!EventId : WF_sVars(part = "process" /\ S!TimerExpires(id))

\* Blows, deaths and cooldowns add up (Casting!CastingSound).
Blows == part = "casting" => CastingSound

\* Whatever scripts hold has one owner who gives it up once (Scripts!ScriptsAgree).
Ownership == part = "scripts" => ScriptsAgree
=============================================================================
