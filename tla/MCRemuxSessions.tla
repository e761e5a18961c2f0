-------------------------- MODULE MCRemuxSessions --------------------------
\* RemuxJobs around browser sessions, in two scenes.
EXTENDS MCRemuxJobs

CONSTANTS s1, s2
VARIABLE scene

\* "cache": one cacheable output, one generation of a session that may be
\* forgotten.  "supersede": two outputs and two generations of a session that
\* is remembered, over native downloads; the older asks for the seek output.
Scene ==
    \A r \in Reader : rd[r].pc # "idle" =>
        CASE scene = "cache" -> rd[r].key = k2 /\ rd[r].g <= 1 /\ rd[r].s = s2 /\ ~rd[r].keep
          [] scene = "supersede" -> rd[r].keep /\ rd[r].s = s1 /\ (rd[r].g = 1 => rd[r].key = k1)
Heard ==
    CASE scene = "cache" -> sess[s1] = Forgotten /\ sess[s2].latest <= 1
      [] scene = "supersede" -> sess[s2] = Forgotten

MCInit == Init /\ scene \in {"cache", "supersede"}
MCNext == UNCHANGED scene /\ Next /\ Scene' /\ Heard'
MCSpec == MCInit /\ [][MCNext]_<<vars, scene>>

\* Sessions and jobs agree: a job's owners are current generations, a producer
\* nobody wants is told to stop (where no session is forgotten), and what
\* readers hold and are served stays (RemuxJob::add_web_request, attach_job).
SessionsAgree ==
    /\ OwnersAreCurrent /\ ReadersHoldTheirJob /\ ServedBytesOnDisk
    /\ scene = "supersede" => NoOrphanProducer

SceneSymmetry == Permutations(Reader)
=============================================================================
