-------------------------------- MODULE MCLoops --------------------------------
(***************************************************************************)
(* One instance for TLC of background loops that share nothing at work:    *)
(* the webhook relay, the digest sweep and the scheduler.  The initial     *)
(* state says which of them runs; the others rest.                         *)
(***************************************************************************)
EXTENDS WebhookRelay, Digest, Scheduler, TLC
CONSTANTS n1, n2, n3, n4, g1, g2, r1, r2, s1, s2, j, w1, w2

VARIABLE part

MCGroup == (n1 :> g1) @@ (n2 :> g1) @@ (n3 :> g1) @@ (n4 :> g2)

MCCrons == {"often", "once"}
MCSlots == [often |-> {1, 2}, once |-> {2}]

InRelay(A)  == part = "relay"  /\ A /\ UNCHANGED <<part, digestVars, jobVars>>
InDigest(A) == part = "digest" /\ A /\ UNCHANGED <<part, vars, jobVars>>
InJobs(A)   == part = "jobs"   /\ A /\ UNCHANGED <<part, vars, digestVars>>

LoopsInit == /\ part \in {"relay", "digest", "jobs"}
             /\ Init /\ DigestInit /\ JobsInit

LoopsNext == InRelay(Next) \/ InDigest(DigestNext) \/ InJobs(JobsNext)

\* The fairness of the modules' own specifications; notes age once each, so that one
\* condition does for all of them.
LoopsSpec ==
    /\ LoopsInit /\ [][LoopsNext]_<<part, vars, digestVars, jobVars>>
    /\ \A r \in Relays : WF_vars(InRelay(Relay(r)))
    /\ \A w \in Sweepers : WF_digestVars(InDigest(Sweep(w)))
    /\ WF_digestVars(InDigest(\E n \in Notes : Age(n)))
    /\ WF_jobVars(InJobs(Passes))
    /\ \A w \in Workers : WF_jobVars(InJobs(Tick(w)))
=============================================================================
