------------------------------- MODULE Audio --------------------------------
(***************************************************************************)
(* GET library/{id}/audio (routers/library.py) and app/audio.py: a permit  *)
(* is taken before ffprobe and ffmpeg run and has to come back on every    *)
(* way out: an error answer, the end of the stream, a client that leaves,  *)
(* a response whose body nobody ever began to read.                        *)
(***************************************************************************)
EXTENDS Integers, FiniteSets

CONSTANTS Listeners,         \* requests
          AudioConcurrency   \* settings.audio_concurrency

ASSUME AudioAssumption == AudioConcurrency \in Nat \ {0}

VARIABLES stage,     \* where a request is
          encoder,   \* requests whose ffmpeg runs
          prober,    \* requests whose ffprobe runs
          free,      \* value of _audio_sem
          taken,     \* requests that have acquired it
          released   \* state["released"]

audioVars == <<stage, encoder, prober, free, taken, released>>

AudioInit ==
    /\ stage = [r \in Listeners |-> "none"]
    /\ encoder = {} /\ prober = {} /\ taken = {} /\ released = {}
    /\ free = AudioConcurrency

To(r, s) == stage' = [stage EXCEPT ![r] = s]

-----------------------------------------------------------------------------
(* Fault: the permit is given back each time. *)
GiveBack_EachTime(r) ==
    /\ encoder' = encoder \ {r}
    /\ released' = released \cup {r}
    /\ free' = free + 1
    /\ UNCHANGED taken

(* release(): closes the stream (ffmpeg is killed) and gives the permit back, once. *)
GiveBack(r) ==
    /\ encoder' = encoder \ {r}
    /\ released' = released \cup {r}
    /\ free' = IF r \in released THEN free ELSE free + 1
    /\ UNCHANGED taken

(* The item is not there or not ready, or nothing is free: an error answer; else the permit.     *)
AskAudio(r) ==
    /\ stage[r] = "none"
    /\ \/ /\ To(r, "done")
          /\ UNCHANGED <<free, taken, prober>>
       \/ /\ free > 0
          /\ free' = free - 1
          /\ taken' = taken \cup {r}
          /\ prober' = prober \cup {r}
          /\ To(r, "probe")
    /\ UNCHANGED <<encoder, released>>

(* probe_audio returns what the request can use. *)
ProbeAnswers(r) ==
    /\ stage[r] = "probe"
    /\ prober' = prober \ {r}
    /\ To(r, "spawn")
    /\ UNCHANGED <<encoder, free, taken, released>>

(* It fails or times out (ffprobe is killed), or there is no such track: AudioError.             *)
ProbeRefuses(r) ==
    /\ stage[r] = "probe"
    /\ prober' = prober \ {r}
    /\ GiveBack(r)
    /\ To(r, "done")

(* AudioStream.start *)
Spawn(r) ==
    /\ stage[r] = "spawn"
    /\ encoder' = encoder \cup {r}
    /\ To(r, "first")
    /\ UNCHANGED <<prober, free, taken, released>>

SpawnFails(r) ==
    /\ stage[r] = "spawn"
    /\ GiveBack(r)
    /\ To(r, "done")
    /\ UNCHANGED prober

FirstBytes(r) ==
    /\ stage[r] = "first"
    /\ To(r, "answered")
    /\ UNCHANGED <<encoder, prober, free, taken, released>>

(* ffmpeg ends without a byte. *)
NoBytes(r) ==
    /\ stage[r] = "first"
    /\ GiveBack(r)
    /\ To(r, "done")
    /\ UNCHANGED prober

(* The request is cancelled before there is a response; an ffprobe goes on by itself. *)
RequestCancelled(r) ==
    /\ stage[r] \in {"probe", "spawn", "first"}
    /\ GiveBack(r)
    /\ To(r, "done")
    /\ UNCHANGED prober

ProberEnds(r) ==
    /\ r \in prober /\ stage[r] = "done"
    /\ prober' = prober \ {r}
    /\ UNCHANGED <<stage, encoder, free, taken, released>>

-----------------------------------------------------------------------------
(* The server begins to iterate body(). *)
BodyBegins(r) ==
    /\ stage[r] = "answered"
    /\ To(r, "streams")
    /\ UNCHANGED <<encoder, prober, free, taken, released>>

EncoderExits(r) ==
    /\ stage[r] = "streams" /\ r \in encoder
    /\ encoder' = encoder \ {r}
    /\ UNCHANGED <<stage, prober, free, taken, released>>

(* The finally of body(): all is sent or the client has left, and the background task follows;   *)
(* or ffmpeg failed half way and the exception aborts the response.                              *)
BodyEnds(r) ==
    /\ stage[r] = "streams"
    /\ \E s \in {"background", "done"} : To(r, s)
    /\ GiveBack(r)
    /\ UNCHANGED prober

(* The client has left before the body began: its finally never runs. *)
NeverRead(r) ==
    /\ stage[r] = "answered"
    /\ To(r, "background")
    /\ UNCHANGED <<encoder, prober, free, taken, released>>

(* Fault: the response has no background task. *)
Background_None(r) ==
    /\ stage[r] = "background"
    /\ To(r, "done")
    /\ UNCHANGED <<encoder, prober, free, taken, released>>

(* BackgroundTask(release) *)
Background(r) ==
    /\ stage[r] = "background"
    /\ GiveBack(r)
    /\ To(r, "done")
    /\ UNCHANGED prober

AudioStep(r) ==
    \/ ProbeAnswers(r) \/ ProbeRefuses(r) \/ Spawn(r) \/ SpawnFails(r) \/ FirstBytes(r) \/ NoBytes(r)
    \/ BodyBegins(r) \/ BodyEnds(r) \/ NeverRead(r) \/ Background(r)

AudioNext ==
    \E r \in Listeners :
        AskAudio(r) \/ AudioStep(r) \/ EncoderExits(r) \/ RequestCancelled(r) \/ ProberEnds(r)

AudioSpec == AudioInit /\ [][AudioNext]_audioVars

(* ffprobe has a time limit; ffmpeg is trusted to write or to exit, the client to read or leave. *)
AudioFairness == \A r \in Listeners : WF_audioVars(AudioStep(r))

AudioFairSpec == AudioSpec /\ AudioFairness

-----------------------------------------------------------------------------
AudioStages == {"none", "probe", "spawn", "first", "answered", "streams", "background", "done"}

AudioTypeOK ==
    /\ stage \in [Listeners -> AudioStages]
    /\ {encoder, prober, taken, released} \subseteq SUBSET Listeners
    /\ free \in Nat

(* The permits that are out are those of the requests that took one and have not given it back,  *)
(* though two or three ways out of a request all give it back; and an ffmpeg runs for a request  *)
(* that holds a permit only, so there are never more of them than permits.                       *)
AudioPermits ==
    /\ free + Cardinality(taken \ released) = AudioConcurrency
    /\ encoder \subseteq taken \ released

(* Every permit comes back, also from a response that is never read. *)
PermitComesBack == \A r \in Listeners : (r \in taken) ~> (r \in released)

=============================================================================
