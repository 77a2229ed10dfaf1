----------------------------- MODULE MCServices -----------------------------
(***************************************************************************)
(* The components that share no state and keep promises about what must    *)
(* happen, checked in one run: a behaviour is one of them, chosen at the   *)
(* start, while the others stand still in their initial states.            *)
(***************************************************************************)
EXTENDS TaskQueue, Notifier, DiskClean, Scripts, Audio

VARIABLE part

Parts == {"queue", "notifier", "clean", "scripts", "audio"}

serviceVars == <<part, vars, notifyVars, cleanVars, scriptVars, audioVars>>

ServicesInit ==
    /\ part \in Parts
    /\ Init /\ NotifyInit /\ CleanInit /\ ScriptsInit /\ AudioInit

(* These may come to an end; the line in front of the run slots must not. *)
Over ==
    /\ part # "queue"
    /\ UNCHANGED <<vars, notifyVars, cleanVars, scriptVars, audioVars>>

ServicesNext ==
    /\ UNCHANGED part
    /\ \/ /\ part = "queue" /\ Next
          /\ UNCHANGED <<notifyVars, cleanVars, scriptVars, audioVars>>
       \/ /\ part = "notifier" /\ NotifyNext
          /\ UNCHANGED <<vars, cleanVars, scriptVars, audioVars>>
       \/ /\ part = "clean" /\ CleanNext
          /\ UNCHANGED <<vars, notifyVars, scriptVars, audioVars>>
       \/ /\ part = "scripts" /\ ScriptsNext
          /\ UNCHANGED <<vars, notifyVars, cleanVars, audioVars>>
       \/ /\ part = "audio" /\ AudioNext
          /\ UNCHANGED <<vars, notifyVars, cleanVars, scriptVars>>
       \/ Over

(* Each part with its own fairness.  Nothing that is fair in a part that stands still is enabled *)
(* in its initial state, but for the clock and the schedule of the disk clean, which therefore   *)
(* name their part.                                                                              *)
ServicesSpec ==
    /\ ServicesInit /\ [][ServicesNext]_serviceVars
    /\ QueueFairness
    /\ NotifyFairness
    /\ SF_cleanVars(part = "clean" /\ CleanTick)
    /\ WF_cleanVars(part = "clean" /\ AutomaticClean(FALSE))
    /\ AgentFairness
    /\ ScriptsFairness
    /\ AudioFairness
=============================================================================
