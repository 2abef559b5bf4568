---------------------------- MODULE MCIssueIngest ----------------------------
(***************************************************************************)
(* The status of issues while events arrive, and the releases the events   *)
(* name.  Each part is explored by itself: focus is the part that moves.   *)
(* Liveness is checked, which symmetry would make unsound, so none is      *)
(* declared.                                                               *)
(***************************************************************************)
EXTENDS IssueIngest, Releases, TLC

CONSTANTS o1, o2, p1, p2, p3
VARIABLE focus

\* Projects p1 and p2 of one organization and p3 of another name the same version.
MCOrgOf == (p1 :> o1 @@ p2 :> o1 @@ p3 :> o2)
Named(ps) == [releases |-> {"v"} \X ps, envs |-> {"prod"} \X ps]
Scenario(batches, n, runs) == [batches |-> batches, calls |-> n, nights |-> runs]
MCScenarios == {Scenario({Named({p1, p2}), Named({p1, p3})}, 0, 1),
                Scenario({Named({p1, p2}), Named({p2})}, 1, 0),
                Scenario({Named({p1})}, 2, 1), Scenario({}, 3, 0)}

statusVars == <<focus, vars, releaseVars>>
Arriving == focus = "status"
StatusInit ==
  /\ focus \in {"status", "releases"}
  /\ focus = "releases" => ev = [e \in EventIds |-> CHOOSE x \in ProcessingEvent : x.release = NoRelease]
  /\ focus = "status" => callsLeft = 3
  /\ Init /\ ReleasesInit
StatusNext ==
  /\ UNCHANGED focus
  /\ \/ Arriving /\ Next /\ UNCHANGED releaseVars
     \/ focus = "releases" /\ ReleasesNext /\ UNCHANGED vars
     \* Only the filing of events is checked for deadlock.
     \/ focus = "releases" /\ UNCHANGED <<vars, releaseVars>>
StatusSpec == StatusInit /\ [][StatusNext]_statusVars
                /\ \A w \in Workers : WF_vars(Arriving /\ Advance(w))

\* Where events arrive, AllEventsStored: every event handed out is stored in the
\* end, or its task died.
ArrivingEventsStored == Arriving => AllEventsStored
==============================================================================
