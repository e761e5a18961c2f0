------------------------------ MODULE MCHost -------------------------------
(* Small instances of the server's schedulers, of its eventing, of its      *)
(* connections and of a helper it runs: a behaviour is about one of them.   *)
EXTENDS HelperGate, CleanupScheduler, Gena, HttpConnection, HelperProcess

VARIABLE part

\* Every container id is one byte long.
UnitLen == [c \in Containers |-> 1]

\* One client that pipelines two requests, sends one alone, or keeps its
\* connection up to the limit, and one that sends nothing.
MCScripts == [c \in HcConns |->
    IF c = "a"
    THEN {<<"page", y>> : y \in Kinds} \cup {<<"soap">>, <<"page">>}
         \cup {<<"page", "soap", "page">>}
    ELSE {<<>>}]

\* Idle callers, and workers there are not, are interchangeable: it is the
\* first of them that begins.
FirstBegins(pc_of, rest) ==
    LET first == CHOOSE x \in DOMAIN pc_of : TRUE
    IN \A x \in DOMAIN pc_of \ {first} :
          pc_of[x] = rest /\ pc_of'[x] # rest => pc_of[first] # rest
RetentionStep == CsNext /\ FirstBegins(cpc, "idle") /\ FirstBegins(wpc, "none")

hostVars == <<vars, csVars, genaVars, hcVars, hpVars, part>>

\* What a behaviour is not about stands still in one state.
MCInit ==
    /\ part \in {"gate", "retention", "gena", "listener", "helper"}
    /\ Init /\ CsInit /\ GenaInit /\ HcInit /\ HpInit
    /\ citem = [c \in Caller |-> CHOOSE i \in Item : TRUE]
    /\ part # "listener" => hcConn["a"].script = <<"page">>
    /\ part # "helper" => hpConfig.retention = "Head"

\* The second client matters to a first one that sends a single request.
ListenerStep == HcNext /\ (Len(hcConn["a"].script) > 1 => hcConn'["b"].at = "away")

MCNext ==
    /\ UNCHANGED part
    /\ \/ part = "gate" /\ Next /\ UNCHANGED <<csVars, genaVars, hcVars, hpVars>>
       \/ part = "retention" /\ RetentionStep /\ UNCHANGED <<vars, genaVars, hcVars, hpVars>>
       \/ /\ part = "gena" /\ GenaNext /\ FirstBegins(phase, "check")
          /\ UNCHANGED <<vars, csVars, hcVars, hpVars>>
       \/ part = "listener" /\ ListenerStep /\ UNCHANGED <<vars, csVars, genaVars, hpVars>>
       \/ part = "helper" /\ HpNext /\ UNCHANGED <<vars, csVars, genaVars, hcVars>>

\* The fairness of each module, while the behaviour is about it.
MCFairness ==
    /\ \A t \in Threads :
          WF_vars(part = "gate" /\ WaitLoop(t)) /\ WF_vars(part = "gate" /\ DropPermit(t))
    /\ \A w \in Worker : WF_csVars(part = "retention" /\ WorkerStep(w))
    /\ \A c \in Caller : WF_csVars(part = "retention" /\ CallerStep(c))
    /\ \A i \in Item : WF_csVars(part = "retention" /\ Tick(i))
    /\ WF_genaVars(part = "gena" /\ take_content_dir_notifies)
    /\ WF_genaVars(part = "gena" /\ admit_content_dir_job)
    /\ WF_genaVars(part = "gena" /\ StopQueue)
    /\ \A w \in Workers : WF_genaVars(part = "gena" /\ NotifyWorkerStep(w))
    /\ WF_hcVars(part = "listener" /\ (HcPermit \/ HcWake))
    /\ \A c \in HcConns :
          /\ WF_hcVars(part = "listener" /\ HcAccept(c))
          /\ WF_hcVars(part = "listener" /\ HcTask(c))
    /\ WF_hpVars(part = "helper" /\ HpSupervise) /\ WF_hpVars(part = "helper" /\ HpCaptureStep)
    /\ WF_hpVars(part = "helper" /\ HpDeadline)

MCSpec == MCInit /\ [][MCNext]_hostVars /\ MCFairness

\* Nobody waits for ever: a queued helper is admitted, an expired output is
\* swept, the notification workers drain their queue and stop, every
\* connection ends and every helper's run returns.
SchedulersProgress ==
    WaiterAdmitted /\ ExpiredIsSwept /\ WorkersFinish /\ ConnectionsEnd /\ RunsReturn
=============================================================================
