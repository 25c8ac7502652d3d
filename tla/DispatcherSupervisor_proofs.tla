--------------------- MODULE DispatcherSupervisor_proofs ---------------------
(***************************************************************************)
(* The rule is supervised, its removal remembered and every replacement    *)
(* justified, for any number of processes and helpers, any deadlines and   *)
(* any number of faults and crashes.                                       *)
(*                                                                         *)
(* The NRPT lock carries the argument: between its check and its last      *)
(* change a script holds it, so what the script checked is still so        *)
(* (ScriptInv), and no helper is between the two when Stop has removed     *)
(* both the rule and its record (ControllerInv).                           *)
(***************************************************************************)
EXTENDS DispatcherSupervisor, TLAPS

\* A script that passed its check holds the lock; what it checked or already
\* changed is still so.  Only the controller's script enables or disables.
ScriptInv ==
    /\ \A r \in Runners :
          /\ run[r].act = "none" => run[r].at = "start"
          /\ run[r].at \in {"first", "second"} => nrptLock = r
          /\ run[r].act = "Suspend" /\ run[r].at = "first" => rule
          /\ run[r].act = "Suspend" /\ run[r].at = "second" => suspended
          /\ run[r].act = "Resume" /\ run[r].at = "first" => suspended
          /\ run[r].act = "Resume" /\ run[r].at = "second" => rule
          /\ run[r].act = "Disable" /\ run[r].at = "second" => ~rule
    /\ \A h \in Helpers : run[h].act \in {"none", "Suspend", "Resume"}
    /\ run[Controller].act \in {"none", "Enable", "Disable"}

\* The controller's script belongs to where the controller is, and a Stop whose
\* script ended without failing has removed the rule and the record.
ControllerInv ==
    /\ run[Controller].act = "Enable" => ctl = "enabling"
    /\ run[Controller].act = "Disable" => ctl \in {"disabling", "stopping"}
    /\ ctl \in {"started", "enabling", "enabled"} => supervised
    /\ ctl = "stopping" /\ ScriptDone => ~rule /\ ~suspended

\* The failures that superviseLoop counts are the held dispatcher's own.
ProbeInv ==
    /\ sup.child = Nobody => sup.failures = 0
    /\ sup.failures <= misses

IInv == TypeOK /\ ScriptInv /\ ControllerInv /\ ProbeInv /\ RuleSupervised

-----------------------------------------------------------------------------
(* Operators of the loop keep the types of its locals.                     *)

\* Every deadline and bound is a positive number.
LEMMA Deadlines ==
    /\ SuspendAfter \in Nat \ {0} /\ RestartSpacing \in Nat \ {0} /\ HelperRetry \in Nat \ {0}
    /\ HelperTimeout \in Nat \ {0} /\ LivenessInterval \in Nat \ {0} /\ LivenessFailures \in Nat \ {0}
    /\ FailureGrace \in Nat \ {0} /\ StartupDeadline \in Nat \ {0}
    /\ MaxFaults \in Nat /\ MaxCrashes \in Nat
BY SupervisorConstants, Zenon

\* The smaller of two numbers.
LEMMA MinOfTwo ==
    ASSUME NEW a \in Int, NEW b \in Int
    PROVE  Min({a, b}) = IF a <= b THEN a ELSE b
<1>1. \A x \in {a, b} : (\A y \in {a, b} : x <= y) => x = IF a <= b THEN a ELSE b
  OBVIOUS
<1>2. \E x \in {a, b} : \A y \in {a, b} : x <= y
  OBVIOUS
<1>3. QED
  BY <1>1, <1>2, Zenon DEF Min

\* The larger of two numbers.
LEMMA MaxOfTwo ==
    ASSUME NEW a \in Int, NEW b \in Int
    PROVE  Max({a, b}) = IF a >= b THEN a ELSE b
<1>1. \A x \in {a, b} : (\A y \in {a, b} : x >= y) => x = IF a >= b THEN a ELSE b
  OBVIOUS
<1>2. \E x \in {a, b} : \A y \in {a, b} : x >= y
  OBVIOUS
<1>3. QED
  BY <1>1, <1>2, Zenon DEF Max

\* An age grows no further than the bound it is compared with.
LEMMA OlderType ==
    ASSUME NEW bound \in Nat
    PROVE  /\ \A age \in 0 .. bound : Older(age, bound) \in 0 .. bound
           /\ \A age \in Ages(bound) : Older(age, bound) \in Ages(bound)
BY MinOfTwo DEF Older, Ages, NoAge

\* A tick keeps everything but the ages.
LEMMA LaterType ==
    ASSUME NEW s \in Locals
    PROVE  /\ Later(s) \in Locals
           /\ Later(s).pc = s.pc /\ Later(s).child = s.child /\ Later(s).helper = s.helper
           /\ Later(s).failures = s.failures
<1> DEFINE a == IF s.child = Nobody THEN 0 ELSE Older(s.childAge, StartupDeadline)
           b == Older(s.unready, SuspendAfter)
           c == IF s.failures = 0 THEN 0 ELSE Older(s.failAge, FailureGrace)
           d == IF s.helper = Nobody THEN 0 ELSE Older(s.helperAge, HelperTimeout)
           e == Older(s.restAge, HelperRetry)
           f == Older(s.startAge, RestartSpacing)
           g == Older(s.probeAge, LivenessInterval)
<1>1. /\ a \in 0 .. StartupDeadline /\ b \in Ages(SuspendAfter) /\ c \in 0 .. FailureGrace
      /\ d \in 0 .. HelperTimeout
  BY OlderType, Deadlines DEF Locals
<1>2. /\ e \in 0 .. HelperRetry /\ f \in 0 .. RestartSpacing /\ g \in 0 .. LivenessInterval
  BY OlderType, Deadlines, Zenon DEF Locals
<1>3. Later(s) = [s EXCEPT !.childAge = a, !.unready = b, !.failAge = c, !.helperAge = d, !.restAge = e,
                           !.startAge = f, !.probeAge = g]
  BY Zenon DEF Later
<1> HIDE DEF a, b, c, d, e, f, g
<1>4. Later(s) \in Locals
  BY <1>1, <1>2, <1>3, ZenonT(120) DEF Locals
<1>5. QED
  BY <1>3, <1>4, ZenonT(120) DEF Locals

\* Forgetting the probes of a dispatcher keeps everything else.
LEMMA ResetType ==
    ASSUME NEW s \in Locals
    PROVE  /\ ResetLiveness(s) \in Locals /\ ResetLiveness(s).failures = 0
           /\ ResetLiveness(s).pc = s.pc /\ ResetLiveness(s).child = s.child
<1>1. 0 \in 0 .. LivenessFailures /\ 0 \in 0 .. FailureGrace /\ LivenessInterval \in 0 .. LivenessInterval
  BY Deadlines
<1>2. FALSE \in BOOLEAN
  BY Zenon
<1>3. ResetLiveness(s) \in Locals
  BY <1>1, <1>2, ZenonT(120) DEF ResetLiveness, Locals
<1>4. QED
  BY <1>3, Zenon DEF ResetLiveness, Locals

\* The locals superviseLoop starts with.
LEMMA FreshType == Fresh \in Locals /\ Fresh.failures = 0 /\ Fresh.pc = "idle"
BY Deadlines DEF Fresh, Locals, Ages, NoAge, Nobody

\* A probe counts one failure or none, and nothing else of the dispatcher.
LEMMA ProbedType ==
    ASSUME NEW s \in Locals, NEW answered \in BOOLEAN
    PROVE  /\ Probed(s, answered) \in Locals
           /\ Probed(s, answered).pc = s.pc /\ Probed(s, answered).child = s.child
           /\ answered => Probed(s, answered).failures = 0
           /\ ~answered => Probed(s, answered).failures
                             = IF s.failures + 1 <= LivenessFailures THEN s.failures + 1 ELSE LivenessFailures
<1>1. Min({s.failures + 1, LivenessFailures})
        = IF s.failures + 1 <= LivenessFailures THEN s.failures + 1 ELSE LivenessFailures
  BY MinOfTwo, Deadlines DEF Locals
<1>2. CASE answered
  <2>1. 0 \in 0 .. LivenessFailures /\ 0 \in 0 .. FailureGrace /\ 0 \in 0 .. LivenessInterval /\ TRUE \in BOOLEAN
    BY Deadlines
  <2>2. Probed(s, answered)
          = [s EXCEPT !.probeAge = 0, !.failures = 0, !.failAge = 0, !.answered = TRUE]
    BY <1>2, Zenon DEF Probed
  <2>3. Probed(s, answered) \in Locals
    BY <2>1, <2>2, ZenonT(120) DEF Locals
  <2>4. QED
    BY <1>2, <2>2, <2>3, ZenonT(120) DEF Locals
<1>3. CASE ~answered
  <2> DEFINE n == Min({s.failures + 1, LivenessFailures})
             a == IF s.failures = 0 THEN 0 ELSE s.failAge
  <2>1. n \in 0 .. LivenessFailures /\ a \in 0 .. FailureGrace /\ 0 \in 0 .. LivenessInterval
    BY <1>1, Deadlines DEF Locals
  <2>2. Probed(s, answered) = [s EXCEPT !.probeAge = 0, !.failures = n, !.failAge = a]
    BY <1>3, Zenon DEF Probed
  <2> HIDE DEF n, a
  <2>3. Probed(s, answered) \in Locals
    BY <2>1, <2>2, ZenonT(120) DEF Locals
  <2>4. Probed(s, answered).failures = n /\ Probed(s, answered).pc = s.pc /\ Probed(s, answered).child = s.child
    BY <2>2, <2>3, ZenonT(120) DEF Locals
  <2>5. QED
    BY <1>1, <1>3, <2>3, <2>4, Zenon DEF n
<1>4. QED
  BY <1>2, <1>3, Zenon

\* Judging readiness changes nothing that is counted.
LEMMA JudgedType ==
    ASSUME NEW s \in Locals, NEW published \in BOOLEAN
    PROVE  /\ Judged(s, published) \in Locals
           /\ Judged(s, published).pc = s.pc /\ Judged(s, published).child = s.child
           /\ Judged(s, published).failures = s.failures
<1>1. Max({s.unready, 0}) \in Ages(SuspendAfter) /\ NoAge \in Ages(SuspendAfter)
  BY MaxOfTwo, Deadlines DEF Locals, Ages, NoAge
<1>2. QED
  BY <1>1, ZenonT(120) DEF Judged, Locals

-----------------------------------------------------------------------------
(* Type correctness.                                                       *)

\* The scripts and the lock they hold have their types.
RunOK == run \in [Runners -> Scripts] /\ nrptLock \in Runners \cup {Nobody}

\* A script that ends, goes on, hangs or begins keeps these types.
LEMMA ScriptType ==
    ASSUME TypeOK, NEW r \in Runners
    PROVE  /\ Finish(r) => RunOK'
           /\ \A step \in {"first", "second"} : Goto(r, step) => RunOK'
           /\ run' = [run EXCEPT ![r].at = "stuck"] /\ UNCHANGED nrptLock => RunOK'
           /\ \A act \in {"Suspend", "Resume", "Enable", "Disable"} :
                 run' = [run EXCEPT ![r] = [act |-> act, at |-> "start"]] /\ UNCHANGED nrptLock => RunOK'
<1>1. Finish(r) => RunOK'
  BY DEF TypeOK, RunOK, Finish, NrptFreed, Idle, Scripts
<1>2. ASSUME NEW step \in {"first", "second", "stuck"}
      PROVE  [run EXCEPT ![r].at = step] \in [Runners -> Scripts]
  BY ZenonT(120) DEF TypeOK, Scripts
<1>3. \A step \in {"first", "second"} : Goto(r, step) => RunOK'
  BY <1>2 DEF TypeOK, RunOK, Goto
<1>4. run' = [run EXCEPT ![r].at = "stuck"] /\ UNCHANGED nrptLock => RunOK'
  BY <1>2, Zenon DEF TypeOK, RunOK
<1>5. ASSUME NEW act \in {"Suspend", "Resume", "Enable", "Disable"}
      PROVE  [run EXCEPT ![r] = [act |-> act, at |-> "start"]] \in [Runners -> Scripts]
  BY Zenon DEF TypeOK, Scripts
<1>6. QED
  BY <1>1, <1>3, <1>4, <1>5 DEF RunOK, TypeOK

\* A new pass, a helper that is ended or reaped, or the end of supervision: the types
\* and the count of failures stay right.
LEMMA WakeInv ==
    ASSUME TypeOK, ProbeInv, Wake
    PROVE  TypeOK' /\ ProbeInv'
<1> USE SupervisorConstants, Deadlines
<1> DEFINE s == Later(sup)
           overdue == HelperRuns /\ s.helperAge >= HelperTimeout
           ended == s.helper # Nobody /\ (overdue \/ ~HelperRuns)
           reaped == IF ended THEN [s EXCEPT !.helper = Nobody, !.helperAge = 0, !.restAge = 0] ELSE s
           dropped == [reaped EXCEPT !.child = Nobody, !.unready = NoAge]
           held == [reaped EXCEPT !.pc = "hold"]
<1>1. sup \in Locals
  BY Zenon DEF TypeOK
<1>2. s \in Locals /\ s.helper = sup.helper /\ s.child = sup.child /\ s.failures = sup.failures
  BY <1>1, LaterType, Zenon
<1>3. /\ Nobody \in Helpers \cup {Nobody} /\ 0 \in 0 .. HelperTimeout /\ 0 \in 0 .. HelperRetry
      /\ Nobody \in Pids \cup {Nobody} /\ NoAge \in Ages(SuspendAfter)
      /\ "hold" \in {"idle", "hold", "observe", "reconcile", "down"}
  BY DEF Ages, NoAge
<1>4. sup' = IF supervised THEN held ELSE ResetLiveness(dropped)
  BY Zenon DEF Wake
<1>5. /\ run' = IF overdue THEN [run EXCEPT ![s.helper] = Idle] ELSE run
      /\ nrptLock' = IF overdue THEN NrptFreed(s.helper) ELSE nrptLock
  BY Zenon DEF Wake
<1>6. overdue => s.helper \in Runners
  BY <1>1, <1>2, Zenon DEF HelperRuns, Locals, Runners
<1> HIDE DEF s, overdue
<1>7. reaped \in Locals
  BY <1>2, <1>3, ZenonT(120) DEF Locals
<1>8. reaped.child = sup.child /\ reaped.failures = sup.failures
  BY <1>2, Zenon DEF Locals
<1> HIDE DEF reaped
<1>9. dropped \in Locals /\ held \in Locals
  BY <1>3, <1>7, ZenonT(120) DEF Locals
<1>10. held.child = sup.child /\ held.failures = sup.failures
  BY <1>7, <1>8, Zenon DEF Locals
<1> HIDE DEF dropped, held
<1>11. sup' \in Locals
  BY <1>4, <1>9, ResetType, Zenon
<1>12. RunOK'
  BY <1>5, <1>6, ScriptType, ZenonT(120) DEF TypeOK, Finish, RunOK
<1>13. misses' \in 0 .. LivenessFailures /\ misses' = IF supervised THEN misses ELSE 0
  BY SMTT(120) DEF Wake, TypeOK
<1>14. dark' \in 0 .. DarkBound + 1
  <2>1. DarkBound \in Nat
    BY DEF DarkBound
  <2>2. Min({dark + 1, DarkBound + 1}) = IF dark + 1 <= DarkBound + 1 THEN dark + 1 ELSE DarkBound + 1
    BY <2>1, MinOfTwo, SMTT(120) DEF TypeOK
  <2>3. QED
    BY <2>1, <2>2 DEF Wake, TypeOK
<1>15. TypeOK'
  BY <1>11, <1>12, <1>13, <1>14, SMTT(120) DEF Wake, TypeOK, RunOK, files, procs, budget
<1>16. ProbeInv'
  BY <1>4, <1>9, <1>10, <1>13, ResetType DEF ProbeInv
<1>17. QED
  BY <1>15, <1>16, Zenon

\* Adoption and start: every new dispatcher begins without failures.
LEMMA HoldInv ==
    ASSUME TypeOK, ProbeInv, Hold
    PROVE  TypeOK' /\ ProbeInv'
<1> USE SupervisorConstants, Deadlines
<1> DEFINE s == [sup EXCEPT !.pc = "observe"]
           dropped == IF s.child = Nobody THEN s ELSE ResetLiveness([s EXCEPT !.child = Nobody])
           adopted == ResetLiveness([dropped EXCEPT !.child = pidFile, !.childAge = 0])
           launched(p) == ResetLiveness([dropped EXCEPT !.child = p, !.childAge = 0, !.startAge = 0])
           failed == ResetLiveness([dropped EXCEPT !.childAge = 0, !.startAge = 0])
<1>1. sup \in Locals
  BY DEF TypeOK
<1>2. /\ Nobody \in Pids \cup {Nobody} /\ pidFile \in Pids \cup {Nobody}
      /\ 0 \in 0 .. StartupDeadline /\ 0 \in 0 .. RestartSpacing
      /\ "observe" \in {"idle", "hold", "observe", "reconcile", "down"}
  BY DEF TypeOK
<1>3. s \in Locals
  BY <1>1, <1>2, ZenonT(120) DEF Locals
<1>4. s.child = sup.child /\ s.failures = sup.failures
  BY <1>1, Zenon DEF Locals
<1>5. [s EXCEPT !.child = Nobody] \in Locals
  BY <1>2, <1>3, ZenonT(120) DEF Locals
<1>6. dropped \in Locals /\ dropped.failures = 0
  BY <1>3, <1>4, <1>5, ResetType, Zenon DEF ProbeInv
<1>7. \/ sup' = s /\ UNCHANGED <<procs, faults, misses>>
      \/ misses' = 0 /\ sup' \in {dropped, adopted} /\ UNCHANGED <<procs, faults>>
      \/ misses' = 0 /\ Launch(dropped)
  BY Zenon DEF Hold
<1> HIDE DEF s, dropped
<1>8. [dropped EXCEPT !.child = pidFile, !.childAge = 0] \in Locals
  BY <1>2, <1>6, ZenonT(120) DEF Locals
<1>9. ASSUME NEW p \in Pids
      PROVE  launched(p) \in Locals /\ launched(p).failures = 0
  <2>1. p \in Pids \cup {Nobody} /\ dropped \in Locals
    BY <1>6, Zenon
  <2>2. [dropped EXCEPT !.child = p, !.childAge = 0, !.startAge = 0] \in Locals
    BY <1>2, <2>1, ZenonT(120) DEF Locals
  <2>3. QED
    BY <2>2, ResetType, Zenon
<1>10. failed \in Locals /\ failed.failures = 0
  <2>1. [dropped EXCEPT !.childAge = 0, !.startAge = 0] \in Locals
    BY <1>2, <1>6, ZenonT(120) DEF Locals
  <2>2. QED
    BY <2>1, ResetType, Zenon
<1>11. adopted \in Locals /\ adopted.failures = 0
  BY <1>8, ResetType, Zenon
<1>12. CASE sup' = s /\ UNCHANGED <<procs, faults, misses>>
  <2>1. ProbeInv'
    BY <1>4, <1>12, Zenon DEF ProbeInv
  <2>2. QED
    BY <1>3, <1>12, <2>1 DEF Hold, TypeOK, files, procs, scripts
<1>13. CASE misses' = 0 /\ sup' \in {dropped, adopted} /\ UNCHANGED <<procs, faults>>
  <2>1. sup' \in Locals /\ sup'.failures = 0
    BY <1>6, <1>11, <1>13, Zenon
  <2>2. ProbeInv'
    BY <1>13, <2>1, SMTT(120) DEF ProbeInv
  <2>3. QED
    BY <1>13, <2>1, <2>2 DEF Hold, TypeOK, files, procs, scripts
<1>14. CASE misses' = 0 /\ Launch(dropped)
  <2>1. sup' \in Locals /\ sup'.failures = 0
    <3>1. sup' = failed \/ \E p \in Pids : sup' = launched(p)
      BY <1>14, ZenonT(120) DEF Launch
    <3> HIDE DEF failed, launched
    <3>2. QED
      BY <1>9, <1>10, <3>1, ZenonT(120)
  <2>2. /\ proc' \in [Pids -> {"none", "init", "boot", "bound", "serving", "hung", "stuck"}]
        /\ untraced' \subseteq {p \in Pids : proc'[p] # "none"}
        /\ faults' \in 0 .. MaxFaults /\ blocked' \in BOOLEAN
    <3>1. CASE UNCHANGED procs /\ SpendFault
      BY <3>1 DEF TypeOK, SpendFault, procs
    <3>2. CASE \E p \in Pids \ {dropped.child} :
                 /\ proc' = [proc EXCEPT ![p] = "init"] /\ untraced' = untraced \ {p}
                 /\ proc[p] = "none" /\ UNCHANGED <<blocked, faults>>
      BY <3>2, ZenonT(120) DEF TypeOK
    <3>3. QED
      BY <1>14, <3>1, <3>2, ZenonT(120) DEF Launch
  <2>3. ProbeInv'
    BY <1>14, <2>1 DEF ProbeInv
  <2>4. QED
    BY <1>14, <2>1, <2>2, <2>3 DEF Hold, TypeOK, files, scripts
<1>15. QED
  BY <1>7, <1>12, <1>13, <1>14, ZenonT(120)

\* The probe: the failures counted stay those of the held dispatcher, and a dispatcher
\* that is ended has left LivenessFailures probes in a row unanswered.
LEMMA ObserveInv ==
    ASSUME TypeOK, ProbeInv, Observe
    PROVE  /\ TypeOK' /\ ProbeInv'
           /\ \A p \in Pids : Alive(p) /\ proc'[p] = "none"
                                => p = sup.child /\ misses' = LivenessFailures
<1> USE SupervisorConstants, Deadlines
<1> DEFINE s == [sup EXCEPT !.pc = "reconcile"]
           published == Alive(s.child) /\ statusFile = s.child
           due == /\ Alive(s.child)
                  /\ published \/ s.childAge >= StartupDeadline
                  /\ s.probeAge >= LivenessInterval
<1>1. sup \in Locals
  BY DEF TypeOK
<1>2. "reconcile" \in {"idle", "hold", "observe", "reconcile", "down"} /\ FALSE \in BOOLEAN
  BY Zenon
<1>3. s \in Locals
  BY <1>1, <1>2, Zenon DEF Locals
<1>4. s.child = sup.child /\ s.failures = sup.failures
  BY <1>1, Zenon DEF Locals
<1>5. PICK answered \in BOOLEAN, terminated \in BOOLEAN :
        LET t == IF due THEN Probed(s, answered) ELSE s
            replace == due /\ ~answered /\ FailurePersistent(t)
            j == Judged(IF replace THEN [t EXCEPT !.answered = FALSE] ELSE t, published)
            lost == due /\ DispatcherAnswers /\ ~answered
            cost == (IF lost THEN 1 ELSE 0) + (IF replace /\ ~terminated THEN 1 ELSE 0)
        IN  /\ answered => due /\ DispatcherAnswers
            /\ terminated => replace
            /\ faults + cost <= MaxFaults /\ faults' = faults + cost
            /\ sup' = j
            /\ misses' = IF ~due THEN misses
                         ELSE IF answered THEN 0 ELSE Min({misses + 1, LivenessFailures})
            /\ proc' = IF terminated THEN [proc EXCEPT ![s.child] = "none"] ELSE proc
            /\ untraced' = IF terminated THEN untraced \ {s.child} ELSE untraced
            /\ pidFile' = IF j.ready THEN s.child ELSE pidFile
  BY Zenon DEF Observe
<1> DEFINE t == IF due THEN Probed(s, answered) ELSE s
           replace == due /\ ~answered /\ FailurePersistent(t)
           u == IF replace THEN [t EXCEPT !.answered = FALSE] ELSE t
<1>6. /\ sup' = Judged(u, published)
      /\ misses' = IF ~due THEN misses
                   ELSE IF answered THEN 0 ELSE Min({misses + 1, LivenessFailures})
      /\ proc' = IF terminated THEN [proc EXCEPT ![s.child] = "none"] ELSE proc
      /\ untraced' = IF terminated THEN untraced \ {s.child} ELSE untraced
      /\ pidFile' \in {s.child, pidFile}
      /\ terminated => replace
      /\ due => s.child # Nobody
  BY <1>5, ZenonT(120) DEF Alive
<1>7. faults' \in 0 .. MaxFaults
  BY <1>5 DEF TypeOK
<1>8. published \in BOOLEAN
  BY Zenon
<1> HIDE DEF published, due, s
<1>9. /\ t \in Locals /\ t.child = s.child
      /\ ~due => t.failures = s.failures
      /\ due /\ answered => t.failures = 0
      /\ due /\ ~answered => t.failures = IF s.failures + 1 <= LivenessFailures
                                          THEN s.failures + 1 ELSE LivenessFailures
  BY <1>3, ProbedType, ZenonT(120)
<1>10. replace => due /\ ~answered /\ t.failures >= LivenessFailures
  BY Zenon DEF FailurePersistent
<1> HIDE DEF t, replace
<1>11. u \in Locals
  BY <1>2, <1>9, ZenonT(120) DEF Locals
<1>12. u.failures = t.failures /\ u.child = t.child
  BY <1>9, Zenon DEF Locals
<1> HIDE DEF u
<1>13. sup' \in Locals /\ sup'.failures = t.failures /\ sup'.child = s.child
  BY <1>6, <1>8, <1>9, <1>11, <1>12, JudgedType, ZenonT(120)
<1>14. Min({misses + 1, LivenessFailures})
         = IF misses + 1 <= LivenessFailures THEN misses + 1 ELSE LivenessFailures
  BY MinOfTwo, SMTT(120) DEF TypeOK
<1>15. misses' \in 0 .. LivenessFailures
  BY <1>6, <1>14, SMTT(120) DEF TypeOK
<1>16. ProbeInv'
  BY <1>3, <1>4, <1>6, <1>9, <1>13, <1>14, SMTT(120) DEF ProbeInv, TypeOK, Locals
<1>17. /\ proc' \in [Pids -> {"none", "init", "boot", "bound", "serving", "hung", "stuck"}]
       /\ untraced' \subseteq {p \in Pids : proc'[p] # "none"}
  <2>1. CASE terminated
    BY <1>6, <2>1, Zenon DEF TypeOK
  <2>2. CASE ~terminated
    BY <1>6, <2>2, ZenonT(120) DEF TypeOK
  <2>3. QED
    BY <2>1, <2>2, ZenonT(120)
<1>18. pidFile' \in Pids \cup {Nobody}
  BY <1>3, <1>6, SMTT(120) DEF TypeOK, Locals
<1>19. TypeOK'
  <2>1. UNCHANGED <<supervised, suspended, rule, statusFile, traceFile, blocked, scripts, componentLock,
                    ctl, dark, crashes>>
    BY ZenonT(120) DEF Observe
  <2>2. QED
    BY <1>7, <1>13, <1>15, <1>17, <1>18, <2>1, SMTT(120) DEF TypeOK, scripts
<1>20. ASSUME NEW p \in Pids, Alive(p), proc'[p] = "none"
       PROVE  p = sup.child /\ misses' = LivenessFailures
  <2>1. terminated /\ p = s.child
    BY <1>6, <1>20, ZenonT(120) DEF Alive, TypeOK
  <2>2. misses' >= LivenessFailures
    BY <1>6, <1>9, <1>10, <1>13, <1>15, <1>16, <2>1, SMTT(120) DEF ProbeInv, Locals
  <2>3. QED
    BY <1>4, <1>15, <2>1, <2>2
<1>21. QED
  BY <1>16, <1>19, <1>20, ZenonT(120)

\* Reconciliation starts a helper or waits.
LEMMA ReconcileInv ==
    ASSUME TypeOK, ProbeInv, Reconcile
    PROVE  TypeOK' /\ ProbeInv'
<1> USE SupervisorConstants, Deadlines
<1> DEFINE s == [sup EXCEPT !.pc = "idle"]
           action == WantedAction(s)
           waiting == [s EXCEPT !.restAge = 0]
           helped(h) == [s EXCEPT !.helper = h, !.helperAge = 0]
           started(h) == [run EXCEPT ![h] = [act |-> action, at |-> "start"]]
<1>1. sup \in Locals
  BY DEF TypeOK
<1>2. /\ "idle" \in {"idle", "hold", "observe", "reconcile", "down"}
      /\ 0 \in 0 .. HelperTimeout /\ 0 \in 0 .. HelperRetry
  OBVIOUS
<1>3. s \in Locals
  BY <1>1, <1>2, Zenon DEF Locals
<1>4. s.child = sup.child /\ s.failures = sup.failures
  BY <1>1, Zenon DEF Locals
<1>5. action \in {"none", "Suspend", "Resume"}
  BY Zenon DEF WantedAction
<1>6. \/ sup' = s /\ UNCHANGED <<run, faults>>
      \/ \E h \in Helpers : /\ sup' = helped(h) /\ run' = started(h) /\ UNCHANGED faults
                            /\ action # "none"
      \/ SpendFault /\ sup' = waiting /\ UNCHANGED run
  BY Zenon DEF Reconcile
<1> HIDE DEF s, action
<1>7. waiting \in Locals /\ \A h \in Helpers : helped(h) \in Locals
  BY <1>2, <1>3, ZenonT(120) DEF Locals
<1>8. /\ waiting.child = s.child /\ waiting.failures = s.failures
      /\ \A h \in Helpers : helped(h).child = s.child /\ helped(h).failures = s.failures
  BY <1>3, Zenon DEF Locals
<1> HIDE DEF waiting, helped, started
<1>10. sup' \in Locals /\ sup'.child = s.child /\ sup'.failures = s.failures
  BY <1>3, <1>6, <1>7, <1>8, Zenon
<1>11. faults' \in 0 .. MaxFaults
  BY <1>6 DEF TypeOK, SpendFault
<1>12. RunOK'
  <2>1. nrptLock' = nrptLock /\ (run' = run \/ \E h \in Helpers : run' = started(h) /\ action # "none")
    BY <1>6, ZenonT(120) DEF Reconcile
  <2>2. QED
    BY <1>5, <2>1, ScriptType, ZenonT(120) DEF started, RunOK, TypeOK, Runners
<1>13. TypeOK'
  BY <1>10, <1>11, <1>12, ZenonT(120) DEF Reconcile, TypeOK, RunOK, files, procs
<1>14. ProbeInv'
  BY <1>4, <1>10, Zenon DEF ProbeInv, Reconcile
<1>15. QED
  BY <1>13, <1>14, SMTT(120)
\* Dispatcher processes and their faults keep every type.
LEMMA ProcessType ==
    ASSUME TypeOK, NEW p \in Pids, Dispatcher(p) \/ Fail(p)
    PROVE  TypeOK'
<1> USE SupervisorConstants
<1>1. CASE ReplaceTrace(p)
  BY <1>1, SMTT(120) DEF ReplaceTrace, Alive, TypeOK, scripts, budget
<1>2. CASE Bind(p)
  <2>1. UNCHANGED <<supervised, suspended, rule, statusFile, traceFile, blocked, scripts, componentLock,
                    ctl, sup, misses, dark, budget>>
    BY <1>2, Zenon DEF Bind
  <2>2. \/ proc' = [proc EXCEPT ![p] = "bound"] /\ pidFile' = p /\ UNCHANGED untraced
        \/ proc' = [proc EXCEPT ![p] = "none"] /\ untraced' = untraced \ {p} /\ UNCHANGED pidFile
    BY <1>2, ZenonT(120) DEF Bind
  <2>3. QED
    BY <2>1, <2>2 DEF TypeOK, scripts, budget
<1>3. CASE Publish(p)
  BY <1>3, SMTT(120) DEF Publish, TypeOK, scripts, budget
<1>4. CASE LoseTrace(p)
  BY <1>4, SMTT(120) DEF LoseTrace, TypeOK, files, scripts, budget
<1>5. CASE Fail(p)
  BY <1>5 DEF Fail, SpendFault, TypeOK, files, scripts
<1>6. QED
  BY <1>1, <1>2, <1>3, <1>4, <1>5, Zenon DEF Dispatcher

\* The steps of an NRPT script keep every type.
LEMMA NrptType ==
    ASSUME TypeOK, NEW r \in Runners, Nrpt(r)
    PROVE  TypeOK'
<1>1. Finish(r) \/ Goto(r, "first") \/ Goto(r, "second")
  BY Zenon DEF Nrpt, NrptCheck, NrptFirst, NrptSecond
<1>2. RunOK'
  BY <1>1, ScriptType, Zenon
<1>3. rule' \in BOOLEAN /\ suspended' \in BOOLEAN
  BY Zenon DEF Nrpt, NrptCheck, NrptFirst, NrptSecond, TypeOK
<1>4. UNCHANGED <<supervised, pidFile, statusFile, traceFile, procs, componentLock, ctl, sup,
                  misses, dark, budget>>
  BY Zenon DEF Nrpt, NrptCheck, NrptFirst, NrptSecond
<1>5. QED
  BY <1>2, <1>3, <1>4, ZenonT(120) DEF TypeOK, RunOK, procs, budget

\* The controller's steps keep every type.
LEMMA ControlType ==
    ASSUME TypeOK, Control \/ CtlFails
    PROVE  TypeOK'
<1> USE SupervisorConstants
<1>1. CASE CtlStart \/ CtlEnabled \/ CtlUnsupervise
  BY <1>1, ZenonT(120) DEF CtlStart, CtlEnabled, CtlUnsupervise, TypeOK, files, procs, scripts, budget
<1>2. CASE CtlEnable \/ CtlDisable \/ CtlStop
  <2>1. RunOK'
    BY <1>2, ScriptType, Zenon DEF CtlEnable, CtlDisable, CtlStop, Script, Runners
  <2>2. ctl' \in {"enabling", "disabling", "stopping"} /\ componentLock' \in BOOLEAN
    BY <1>2, Zenon DEF CtlEnable, CtlDisable, CtlStop, TypeOK
  <2>3. UNCHANGED <<files, procs, sup, misses, dark, budget>>
    BY <1>2, Zenon DEF CtlEnable, CtlDisable, CtlStop
  <2>4. QED
    BY <2>1, <2>2, <2>3, ZenonT(120) DEF TypeOK, RunOK, files, procs, budget
<1>3. CASE CtlEnd
  BY <1>3, ZenonT(120) DEF CtlEnd, TypeOK, scripts, budget
<1>4. CASE CtlFails
  <2>1. RunOK'
    BY <1>4, ScriptType, ZenonT(120) DEF CtlFails, Runners
  <2>2. faults' \in 0 .. MaxFaults
    BY <1>4, Deadlines, SMTT(120) DEF CtlFails, SpendFault, TypeOK
  <2>3. ctl' \in {"enabled", "disabling"} /\ componentLock' = FALSE
    BY <1>4, Zenon DEF CtlFails
  <2>4. UNCHANGED <<files, procs, sup, misses, dark, crashes>>
    BY <1>4, ZenonT(120) DEF CtlFails
  <2>5. QED
    BY <2>1, <2>2, <2>3, <2>4, ZenonT(120) DEF TypeOK, RunOK, files, procs
<1>5. QED
  BY <1>1, <1>2, <1>3, <1>4, ZenonT(120) DEF Control

\* Faults of the environment, the host and the helpers keep every type.
LEMMA FaultType ==
    ASSUME TypeOK,
           \/ Block \/ Unblock \/ LosePid \/ HostCrash \/ HostStart
           \/ \E h \in Helpers : HelperFails(h) \/ LockTimeout(h)
    PROVE  TypeOK'
<1> USE SupervisorConstants
<1>1. CASE Block \/ Unblock
  <2>1. faults' \in 0 .. MaxFaults /\ crashes' \in 0 .. MaxCrashes
    BY <1>1, Deadlines DEF Block, Unblock, SpendFault, TypeOK, budget
  <2>2. blocked' \in BOOLEAN
    BY <1>1, Zenon DEF Block, Unblock
  <2>3. UNCHANGED <<files, proc, untraced, scripts, componentLock, ctl, sup, misses, dark>>
    BY <1>1, ZenonT(120) DEF Block, Unblock
  <2>4. QED
    BY <2>1, <2>2, <2>3, ZenonT(120) DEF TypeOK, files, scripts
<1>2. CASE LosePid
  BY <1>2, Deadlines DEF LosePid, SpendFault, TypeOK, procs, scripts
<1>3. CASE HostCrash
  <2>1. RunOK'
    BY <1>3, ScriptType, ZenonT(120) DEF HostCrash, Runners
  <2>2. [Fresh EXCEPT !.pc = "down"] \in Locals
    BY FreshType DEF Locals
  <2>3. /\ misses' = 0 /\ dark' = 0 /\ componentLock' = FALSE
        /\ ctl' \in {"stopped", "restart"} /\ sup' = [Fresh EXCEPT !.pc = "down"]
        /\ UNCHANGED <<files, procs, faults>>
    BY <1>3, ZenonT(120) DEF HostCrash
  <2>4. crashes' \in 0 .. MaxCrashes
    BY <1>3, Deadlines, SMTT(120) DEF HostCrash, TypeOK
  <2>5. 0 \in 0 .. LivenessFailures /\ 0 \in 0 .. DarkBound + 1
    BY Deadlines, SMTT(120) DEF DarkBound
  <2>6. QED
    BY <2>1, <2>2, <2>3, <2>4, <2>5, ZenonT(120) DEF TypeOK, RunOK, files, procs
<1>4. CASE HostStart
  BY <1>4, FreshType DEF HostStart, TypeOK, files, procs, scripts, budget
<1>5. ASSUME NEW h \in Helpers, HelperFails(h) \/ LockTimeout(h)
      PROVE  TypeOK'
  <2>1. Finish(h) \/ (run' = [run EXCEPT ![h].at = "stuck"] /\ UNCHANGED nrptLock)
    BY <1>5, Zenon DEF HelperFails, LockTimeout
  <2>2. RunOK'
    BY <2>1, ScriptType, Zenon DEF Runners
  <2>3. faults' \in 0 .. MaxFaults
    BY <1>5, Deadlines, SMTT(120) DEF HelperFails, LockTimeout, SpendFault, TypeOK, budget
  <2>4. UNCHANGED <<files, procs, componentLock, ctl, sup, misses, dark, crashes>>
    BY <1>5, ZenonT(120) DEF HelperFails, LockTimeout, budget
  <2>5. QED
    BY <2>2, <2>3, <2>4, ZenonT(120) DEF TypeOK, RunOK, files, procs
<1>6. QED
  BY <1>1, <1>2, <1>3, <1>4, <1>5, SMTT(120)
-----------------------------------------------------------------------------
(* Scripts, the controller and the rule.                                   *)

Core == ScriptInv /\ ControllerInv /\ RuleSupervised
core == <<supervised, suspended, rule, run, nrptLock, ctl>>

\* The three speak of nothing but the rule, its record, the scripts and the controller.
LEMMA CoreStutters == Core /\ UNCHANGED core => Core'
BY SMTT(120) DEF Core, core, ScriptInv, ControllerInv, RuleSupervised, ScriptDone

\* A script that ends takes nobody else's lock.
LEMMA FinishScript ==
    ASSUME TypeOK, ScriptInv, NEW r \in Runners, Finish(r), UNCHANGED <<rule, suspended>>
    PROVE  ScriptInv'
BY SupervisorConstants, SMTT(120) DEF ScriptInv, Finish, NrptFreed, Idle, TypeOK, Runners, Scripts

\* A script that begins has checked nothing yet.
LEMMA BeginScript ==
    ASSUME TypeOK, ScriptInv, NEW r \in Runners, NEW act \in {"Suspend", "Resume", "Enable", "Disable"},
           run' = [run EXCEPT ![r] = [act |-> act, at |-> "start"]],
           r = Controller <=> act \in {"Enable", "Disable"}, UNCHANGED <<nrptLock, rule, suspended>>
    PROVE  ScriptInv'
BY SupervisorConstants DEF ScriptInv, TypeOK, Runners, Scripts

\* A helper's end leaves the controller alone.
LEMMA FinishHelper ==
    ASSUME TypeOK, Core, NEW h \in Helpers, Finish(h), UNCHANGED <<supervised, rule, suspended, ctl>>
    PROVE  Core'
<1>1. ScriptInv'
  BY FinishScript, Zenon DEF Core, Runners
<1>2. run'[Controller] = run[Controller]
  BY SupervisorConstants, Zenon DEF Finish, TypeOK, Runners
<1>3. ControllerInv' /\ RuleSupervised'
  BY <1>2, Zenon DEF Core, ControllerInv, RuleSupervised, ScriptDone
<1>4. QED
  BY <1>1, <1>3, Zenon DEF Core

\* The loop kills an overdue helper and starts a new one; nothing else of it matters here.
LEMMA SuperviseCore ==
    ASSUME TypeOK, Core, Supervise
    PROVE  Core'
<1>1. CASE Wake
  <2>1. UNCHANGED <<supervised, rule, suspended, ctl>>
    BY <1>1, Zenon DEF Wake, files
  <2>2. \/ UNCHANGED <<run, nrptLock>>
        \/ HelperRuns /\ Finish(Later(sup).helper)
    BY <1>1, Zenon DEF Wake, Finish
  <2>3. Later(sup).helper = sup.helper /\ sup.helper \in Helpers \cup {Nobody}
    BY LaterType, ZenonT(120) DEF TypeOK, Locals
  <2>4. QED
    BY <2>1, <2>2, <2>3, CoreStutters, FinishHelper, ZenonT(120) DEF core, HelperRuns
<1>2. CASE Hold \/ Observe
  BY <1>2, CoreStutters, Zenon DEF Hold, Observe, core, files, scripts
<1>3. CASE Reconcile
  <2>1. UNCHANGED <<supervised, rule, suspended, ctl, nrptLock>>
    BY <1>3, ZenonT(120) DEF Reconcile, files
  <2>2. \/ UNCHANGED run
        \/ \E h \in Helpers, act \in {"Suspend", "Resume"} :
              run' = [run EXCEPT ![h] = [act |-> act, at |-> "start"]]
    BY <1>3, Zenon DEF Reconcile, WantedAction
  <2>3. CASE \E h \in Helpers, act \in {"Suspend", "Resume"} :
               run' = [run EXCEPT ![h] = [act |-> act, at |-> "start"]]
    <3>1. PICK h \in Helpers, act \in {"Suspend", "Resume"} :
            run' = [run EXCEPT ![h] = [act |-> act, at |-> "start"]]
      BY <2>3, Zenon
    <3>2. ScriptInv'
      BY <2>1, <3>1, BeginScript, SupervisorConstants, ZenonT(120) DEF Core, Runners
    <3>3. run'[Controller] = run[Controller]
      BY <3>1, SupervisorConstants, ZenonT(120) DEF TypeOK, Runners
    <3>4. QED
      BY <2>1, <3>2, <3>3, Zenon DEF Core, ControllerInv, RuleSupervised, ScriptDone
  <2>4. QED
    BY <2>1, <2>2, <2>3, CoreStutters, ZenonT(120) DEF core
<1>4. QED
  BY <1>1, <1>2, <1>3, Zenon DEF Supervise

\* The scripts: each step holds the lock, so that no other script is past its check.
LEMMA NrptCore ==
    ASSUME TypeOK, Core, NEW r \in Runners, Nrpt(r)
    PROVE  Core'
<1> USE SupervisorConstants
<1>1. UNCHANGED <<supervised, ctl>>
  BY Zenon DEF Nrpt, NrptCheck, NrptFirst, NrptSecond
<1>2. run[r] \in Scripts /\ run \in [Runners -> Scripts] /\ Controller \in Runners
  BY Zenon DEF TypeOK, Runners
<1>3. run[r].act \in {"Enable", "Disable"} <=> r = Controller /\ run[r].act # "none"
  BY <1>2, ZenonT(120) DEF Core, ScriptInv, Runners, Scripts
<1>4. CASE NrptCheck(r)
  <2>1. nrptLock = Nobody /\ UNCHANGED rule
    BY <1>4, ZenonT(120) DEF NrptCheck
  <2>2. ScriptInv'
    BY <1>2, <1>4, <2>1, SMTT(120) DEF NrptCheck, Core, ScriptInv, Finish, Goto, NrptFreed, Idle, Scripts, Runners
  <2>3. ControllerInv'
    BY <1>1, <1>2, <1>3, <1>4, <2>1, SMTT(120) DEF NrptCheck, Core, ControllerInv, ScriptDone, Finish, Goto, Idle, Scripts
  <2>4. RuleSupervised'
    BY <1>1, <1>3, <1>4, <2>1, SMTT(120) DEF NrptCheck, Core, ControllerInv, RuleSupervised
  <2>5. QED
    BY <2>2, <2>3, <2>4, ZenonT(120) DEF Core
<1>5. CASE NrptFirst(r)
  <2>1. nrptLock = r /\ \A q \in Runners \ {r} : run[q].at \notin {"first", "second"}
    BY <1>5, ZenonT(120) DEF NrptFirst, Core, ScriptInv
  <2>2. ScriptInv'
    BY <1>2, <1>5, <2>1, SMTT(120) DEF NrptFirst, Core, ScriptInv, Goto, Scripts, Runners
  <2>3. ControllerInv'
    BY <1>1, <1>2, <1>3, <1>5, SMTT(120) DEF NrptFirst, Core, ScriptInv, ControllerInv, ScriptDone, Goto, Scripts
  <2>4. RuleSupervised'
    BY <1>1, <1>3, <1>5, SMTT(120) DEF NrptFirst, Core, ScriptInv, ControllerInv, RuleSupervised
  <2>5. QED
    BY <2>2, <2>3, <2>4 DEF Core
<1>6. CASE NrptSecond(r)
  <2>1. nrptLock = r /\ \A q \in Runners \ {r} : run[q].at \notin {"first", "second"}
    BY <1>6, Zenon DEF NrptSecond, Core, ScriptInv
  <2>2. ScriptInv'
    BY <1>2, <1>6, <2>1, ZenonT(120) DEF NrptSecond, Core, ScriptInv, Finish, NrptFreed, Idle, Scripts, Runners
  <2>3. ControllerInv'
    <3>1. CASE r # Controller
      <4>1. run'[Controller] = run[Controller]
        BY <1>2, <1>6, <3>1, Zenon DEF NrptSecond, Finish
      <4>2. (rule' => rule) /\ (suspended' => suspended)
        BY <1>6, Zenon DEF NrptSecond
      <4>3. QED
        BY <1>1, <4>1, <4>2, Zenon DEF Core, ControllerInv, ScriptDone
    <3>2. CASE r = Controller
      <4>1. run'[Controller].act = "none"
        BY <1>2, <1>6, <3>2, Zenon DEF NrptSecond, Finish, Idle
      <4>2. ctl = "stopping" => ~rule' /\ ~suspended'
        BY <1>2, <1>6, <3>2, ZenonT(120) DEF NrptSecond, Core, ScriptInv, ControllerInv, Scripts
      <4>3. QED
        BY <1>1, <4>1, <4>2, Zenon DEF Core, ControllerInv, ScriptDone
    <3>3. QED
      BY <3>1, <3>2, Zenon
  <2>4. RuleSupervised'
    BY <1>1, <1>6 DEF NrptSecond, Core, RuleSupervised
  <2>5. QED
    BY <2>2, <2>3, <2>4 DEF Core
<1>7. QED
  BY <1>4, <1>5, <1>6, ZenonT(120) DEF Nrpt

\* The controller: it ends supervision only behind a Disable that succeeded.
LEMMA ControlCore ==
    ASSUME TypeOK, Core, Control \/ CtlFails
    PROVE  Core'
<1> USE SupervisorConstants
<1>1. Controller \in Runners /\ Controller \notin Helpers
  BY Zenon DEF Runners
<1>2. CASE CtlStart \/ CtlEnabled \/ CtlUnsupervise \/ CtlEnd
  <2>1. UNCHANGED <<suspended, rule, run, nrptLock>>
    BY <1>2, Zenon DEF CtlStart, CtlEnabled, CtlUnsupervise, CtlEnd, files, scripts
  <2>2. ScriptInv'
    BY <2>1, ZenonT(120) DEF Core, ScriptInv
  <2>3. ControllerInv' /\ RuleSupervised'
    BY <1>2, <2>1, Zenon DEF CtlStart, CtlEnabled, CtlUnsupervise, CtlEnd, Core, ScriptInv, ControllerInv,
                      RuleSupervised, ScriptDone, files, scripts
  <2>4. QED
    BY <2>2, <2>3, Zenon DEF Core
<1>3. CASE CtlEnable \/ CtlDisable \/ CtlStop
  <2>1. UNCHANGED <<supervised, suspended, rule, nrptLock>>
    BY <1>3, Zenon DEF CtlEnable, CtlDisable, CtlStop, files
  <2>2. PICK act \in {"Enable", "Disable"} :
          /\ run' = [run EXCEPT ![Controller] = [act |-> act, at |-> "start"]]
          /\ act = "Enable" => ctl' = "enabling" /\ ctl \in {"started", "enabled"}
          /\ act = "Disable" => ctl' \in {"disabling", "stopping"}
    BY <1>3, Zenon DEF CtlEnable, CtlDisable, CtlStop, Script
  <2>3. ScriptInv'
    BY <1>1, <2>1, <2>2, BeginScript, ZenonT(120) DEF Core
  <2>4. run'[Controller].act = act
    BY <1>1, <2>2, Zenon DEF TypeOK
  <2>5. ControllerInv' /\ RuleSupervised'
    BY <2>1, <2>2, <2>4, ZenonT(120) DEF Core, ControllerInv, RuleSupervised, ScriptDone
  <2>6. QED
    BY <2>3, <2>5, Zenon DEF Core
<1>4. CASE CtlFails
  <2>1. UNCHANGED <<supervised, suspended, rule>> /\ Finish(Controller)
    BY <1>4, Zenon DEF CtlFails, files
  <2>2. ScriptInv'
    BY <1>1, <2>1, FinishScript, ZenonT(120) DEF Core
  <2>3. run'[Controller].act = "none"
    BY <1>1, <2>1, ZenonT(120) DEF Finish, Idle, TypeOK
  <2>4. ctl' \in {"enabled", "disabling"} /\ (ctl' = "enabled" => ctl = "enabling")
    BY <1>4, Zenon DEF CtlFails
  <2>5. ControllerInv' /\ RuleSupervised'
    BY <2>1, <2>3, <2>4, Zenon DEF Core, ControllerInv, RuleSupervised, ScriptDone
  <2>6. QED
    BY <2>2, <2>5 DEF Core
<1>5. QED
  BY <1>2, <1>3, <1>4, Zenon DEF Control
\* Crashes and hangs: a dead script has given up its lock and a dead host its controller.
LEMMA FaultCore ==
    ASSUME TypeOK, Core,
           \/ Block \/ Unblock \/ LosePid \/ HostCrash \/ HostStart
           \/ \E p \in Pids : Dispatcher(p) \/ Fail(p)
           \/ \E h \in Helpers : HelperFails(h) \/ LockTimeout(h)
    PROVE  Core'
<1> USE SupervisorConstants
<1>1. CASE Block \/ Unblock \/ LosePid \/ HostStart
  BY <1>1, CoreStutters, ZenonT(120) DEF Block, Unblock, LosePid, HostStart, core, files, scripts
<1>2. CASE \E p \in Pids : Dispatcher(p) \/ Fail(p)
  BY <1>2, CoreStutters, ZenonT(120) DEF Dispatcher, ReplaceTrace, Bind, Publish, LoseTrace, Fail, core, files, scripts
<1>3. CASE HostCrash
  <2>1. UNCHANGED <<supervised, suspended, rule>> /\ Finish(Controller) /\ Controller \in Runners
    BY <1>3, Zenon DEF HostCrash, files, Runners
  <2>2. ScriptInv'
    BY <2>1, FinishScript, ZenonT(120) DEF Core
  <2>3. run'[Controller].act = "none" /\ ctl' \in {"stopped", "restart"}
    BY <1>3, <2>1 DEF HostCrash, Finish, Idle, TypeOK
  <2>4. ControllerInv' /\ RuleSupervised'
    BY <2>1, <2>3, Zenon DEF Core, ControllerInv, RuleSupervised, ScriptDone
  <2>5. QED
    BY <2>2, <2>4, Zenon DEF Core
<1>4. ASSUME NEW h \in Helpers, HelperFails(h) \/ LockTimeout(h)
      PROVE  Core'
  <2>1. UNCHANGED <<supervised, rule, suspended, ctl>>
    BY <1>4, Zenon DEF HelperFails, LockTimeout, files
  <2>2. CASE Finish(h)
    BY <2>1, <2>2, FinishHelper, Zenon
  <2>3. CASE run' = [run EXCEPT ![h].at = "stuck"] /\ UNCHANGED nrptLock /\ run[h].act # "none"
    <3>1. ScriptInv'
      BY <2>1, <2>3, SMTT(120) DEF Core, ScriptInv, TypeOK, Runners, Scripts
    <3>2. run'[Controller] = run[Controller]
      BY <2>3, Zenon DEF TypeOK, Runners
    <3>3. QED
      BY <2>1, <3>1, <3>2, ZenonT(120) DEF Core, ControllerInv, RuleSupervised, ScriptDone
  <2>4. QED
    BY <1>4, <2>2, <2>3, Zenon DEF HelperFails, LockTimeout
<1>5. QED
  BY <1>1, <1>2, <1>3, <1>4, ZenonT(120)

-----------------------------------------------------------------------------
(* The inductive invariant.                                                *)

\* With nothing supervised and no script running the invariant holds.
LEMMA InitIInv == Init => IInv
<1> SUFFICES ASSUME Init PROVE IInv
  BY ZenonT(120)
<1> USE SupervisorConstants, Deadlines
<1>1. 0 \in 0 .. DarkBound + 1
  BY DEF DarkBound
<1>2. run \in [Runners -> Scripts] /\ \A r \in Runners : run[r].act = "none" /\ run[r].at = "start"
  BY Zenon DEF Init, Idle, Scripts
<1>3. TypeOK
  <2>1. /\ proc \in [Pids -> {"none", "init", "boot", "bound", "serving", "hung", "stuck"}]
        /\ untraced \subseteq {p \in Pids : proc[p] # "none"}
    BY ZenonT(120) DEF Init
  <2>2. sup \in Locals /\ misses \in 0 .. LivenessFailures /\ dark \in 0 .. DarkBound + 1
        /\ faults \in 0 .. MaxFaults /\ crashes \in 0 .. MaxCrashes
    BY <1>1, FreshType DEF Init
  <2>3. QED
    BY <1>2, <2>1, <2>2, ZenonT(120) DEF Init, TypeOK
<1>4. ScriptInv /\ ControllerInv /\ RuleSupervised
  BY <1>2, ZenonT(120) DEF Init, ScriptInv, ControllerInv, RuleSupervised, Runners
<1>5. ProbeInv
  BY FreshType DEF Init, ProbeInv
<1>6. QED
  BY <1>3, <1>4, <1>5, ZenonT(120) DEF IInv

\* What is left of the steps does not touch the count of failures, or resets it.
LEMMA OtherProbe ==
    ASSUME TypeOK, ProbeInv, Next, ~Supervise
    PROVE  ProbeInv'
<1>1. CASE HostCrash
  <2>1. sup' = [Fresh EXCEPT !.pc = "down"] /\ misses' = 0
    BY <1>1, Zenon DEF HostCrash
  <2>2. sup'.failures = 0
    BY <2>1, FreshType, ZenonT(120) DEF Locals
  <2>3. QED
    BY <2>1, <2>2 DEF ProbeInv
<1>2. CASE HostStart
  <2>1. sup' = Fresh /\ misses' \in Nat
    BY <1>2 DEF HostStart, TypeOK
  <2>2. QED
    BY <2>1, FreshType, SMTT(120) DEF ProbeInv
<1>3. CASE UNCHANGED <<sup, misses>>
  BY <1>3, Zenon DEF ProbeInv
<1>4. QED
  BY <1>1, <1>2, <1>3, ZenonT(120) DEF Next, Control, CtlStart, CtlEnable, CtlEnabled, CtlDisable, CtlStop,
     CtlUnsupervise,
     CtlEnd, CtlFails, Block, Unblock, LosePid, Dispatcher, ReplaceTrace, Bind, Publish, LoseTrace, Fail,
     Nrpt, NrptCheck, NrptFirst, NrptSecond, HelperFails, LockTimeout

\* IInv is inductive.
LEMMA NextIInv == IInv /\ [Next]_vars => IInv'
<1> SUFFICES ASSUME IInv, [Next]_vars PROVE IInv'
  BY Zenon
<1>1. TypeOK /\ ProbeInv /\ Core
  BY Zenon DEF IInv, Core
<1>2. CASE UNCHANGED vars
  <2>1. UNCHANGED <<core, sup, misses>>
    BY <1>2, ZenonT(120) DEF vars, core, files, procs, scripts, budget
  <2>2. TypeOK'
    BY <1>1, <1>2 DEF TypeOK, vars, files, procs, scripts, budget
  <2>3. ProbeInv'
    BY <1>1, <2>1, Zenon DEF ProbeInv
  <2>4. Core'
    BY <1>1, <2>1, CoreStutters, Zenon
  <2>5. QED
    BY <2>2, <2>3, <2>4, Zenon DEF IInv, Core
<1>3. CASE Supervise
  <2>1. TypeOK' /\ ProbeInv'
    BY <1>1, <1>3, WakeInv, HoldInv, ObserveInv, ReconcileInv, ZenonT(120) DEF Supervise
  <2>2. Core'
    BY <1>1, <1>3, SuperviseCore, ZenonT(120)
  <2>3. QED
    BY <2>1, <2>2, ZenonT(120) DEF IInv, Core
<1>4. CASE Next /\ ~Supervise
  <2>1. TypeOK'
    BY <1>1, <1>4, ProcessType, NrptType, ControlType, FaultType, ZenonT(120) DEF Next
  <2>2. ProbeInv'
    BY <1>1, <1>4, OtherProbe, ZenonT(120)
  <2>3. Core'
    BY <1>1, <1>4, NrptCore, ControlCore, FaultCore, ZenonT(120) DEF Next
  <2>4. QED
    BY <2>1, <2>2, <2>3 DEF IInv, Core
<1>5. QED
  BY <1>2, <1>3, <1>4, Zenon

\* The invariant holds in every state the supervisor, the scripts and the controller reach.
LEMMA AlwaysIInv == Spec => []IInv
BY InitIInv, NextIInv, PTL DEF Spec

\* Every variable keeps its type, whatever the processes, deadlines and faults.
THEOREM TypeCorrect == Spec => []TypeOK
<1>1. IInv => TypeOK
  BY Zenon DEF IInv
<1>2. QED
  BY <1>1, AlwaysIInv, PTL

\* The rule, and the record that it is to be restored, exist only under supervision
\* (Invoke-DnsDispatcher.ps1, Stop).
THEOREM RuleIsSupervised == Spec => []RuleSupervised
<1>1. IInv => RuleSupervised
  BY Zenon DEF IInv
<1>2. QED
  BY <1>1, AlwaysIInv, PTL

\* Only a Disable removes the rule without the record that restores it: a Suspend that
\* reaches its removal wrote the record under the same lock.
THEOREM RemovalIsRemembered == Spec => RemovalRemembered
<1>1. IInv /\ [Next]_vars => [rule /\ ~rule' => suspended' \/ ctl \in {"disabling", "stopping"}]_vars
  <2> SUFFICES ASSUME IInv, Next, rule, ~rule'
               PROVE  suspended' \/ ctl \in {"disabling", "stopping"}
    BY ZenonT(120) DEF vars, files
  <2>1. \E r \in Runners : NrptFirst(r) \/ NrptSecond(r)
    BY ZenonT(120) DEF Next, Supervise, Wake, Hold, Observe, Reconcile, Control, CtlStart, CtlEnable, CtlEnabled,
       CtlDisable,
           CtlStop, CtlUnsupervise, CtlEnd, CtlFails, Block, Unblock, LosePid, HostCrash, HostStart, Dispatcher,
           ReplaceTrace, Bind, Publish, LoseTrace, Fail, Nrpt, NrptCheck, HelperFails, LockTimeout, files
  <2>2. PICK r \in Runners : NrptFirst(r) \/ NrptSecond(r)
    BY <2>1, Zenon
  <2>3. CASE NrptFirst(r)
    <3>1. run[r].act = "Disable"
      BY <2>3, Zenon DEF NrptFirst
    <3>2. r = Controller
      BY <3>1, Zenon DEF IInv, ScriptInv, Runners
    <3>3. QED
      BY <3>1, <3>2, Zenon DEF IInv, ControllerInv
  <2>4. CASE NrptSecond(r)
    <3>1. run[r].at = "second" /\ suspended' = IF run[r].act = "Suspend" THEN suspended ELSE FALSE
      BY <2>4, Zenon DEF NrptSecond
    <3>2. run[r].act = "Suspend"
      BY <2>4, Zenon DEF NrptSecond
    <3>3. QED
      BY <3>1, <3>2, Zenon DEF IInv, ScriptInv
  <2>5. QED
    BY <2>2, <2>3, <2>4, Zenon
<1>2. QED
  BY <1>1, AlwaysIInv, PTL DEF Spec, RemovalRemembered

\* The supervisor ends a dispatcher only after LivenessFailures probes in a row that this
\* dispatcher left unanswered.
THEOREM ReplacementIsJustified == Spec => ReplaceJustified
<1> DEFINE Justified == \A p \in Pids : sup.pc = "observe" /\ sup'.pc = "reconcile" /\ Alive(p) /\ proc'[p] = "none"
                                          => p = sup.child /\ misses' = LivenessFailures
<1>1. IInv /\ [Next]_vars => [Justified]_vars
  <2> SUFFICES ASSUME IInv, Next, NEW p \in Pids, sup.pc = "observe", sup'.pc = "reconcile", Alive(p),
                      proc'[p] = "none"
               PROVE  p = sup.child /\ misses' = LivenessFailures
    BY Zenon DEF vars
  <2>1. CASE Observe
    BY <2>1, ObserveInv, Zenon DEF IInv
  <2>2. CASE ~Observe
    <3>1. ~Supervise
      BY <2>2, ZenonT(120) DEF Supervise, Wake, Hold, Reconcile
    <3>2. sup'.pc \in {"observe", "down", "idle"}
      <4>1. CASE UNCHANGED sup
        BY <4>1, Zenon
      <4>2. CASE HostCrash \/ HostStart
        BY <4>2, FreshType, ZenonT(120) DEF HostCrash, HostStart, Locals
      <4>3. QED
        BY <3>1, <4>1, <4>2, ZenonT(120) DEF Next, Control, CtlStart, CtlEnable, CtlEnabled, CtlDisable, CtlStop,
           CtlUnsupervise,
           CtlEnd, CtlFails, Block, Unblock, LosePid, Dispatcher, ReplaceTrace, Bind, Publish, LoseTrace, Fail,
           Nrpt, NrptCheck, NrptFirst, NrptSecond, HelperFails, LockTimeout
    <3>3. QED
      BY <3>2, Zenon
  <2>3. QED
    BY <2>1, <2>2, Zenon
<1>2. QED
  BY <1>1, AlwaysIInv, PTL DEF Spec, ReplaceJustified
=============================================================================
