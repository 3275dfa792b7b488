---------------------------- MODULE MCLiveSession ----------------------------
(***************************************************************************)
(* The parts of a gateway's voice sessions for TLC.  Each behaviour is one *)
(* of one part: a session's input, its own speech, its voices, its speech  *)
(* gate, its conversations at Hermes, its local provider, the starts and   *)
(* ends of the sessions of an owner, the server around them, or the work   *)
(* they hand to agents; the others rest.                                   *)
(***************************************************************************)
EXTENDS SessionInput, SessionSpeech, SessionLifecycle, SpeechOutput, SpeechDetection,
  Conversations, LocalVoiceSession, GatewayServer, Delegations, TLC

CONSTANTS
  c1, c2,   \* tool calls
  f1, f2,   \* flushes of the session's speech
  a1,       \* an answer of the brain
  x1,       \* an agent's update
  t1,       \* a task
  s1, s2,   \* sessions
  d1,       \* a device of the owner
  q1, q2,   \* its turns and recalls
  k1, k2,   \* clients, and the keys of delegations
  w1, w2    \* delegations

VARIABLE part \* what this behaviour is about

Parts == {"input", "speech", "lifecycle", "output", "detection",
          "conversation", "local", "server", "delegation"}
aroundVars == <<conversationVars, localVars, serverVars, delegationVars>>
mcVars == <<part, inputVars, speechVars, lifeVars, outputVars, detectionVars, aroundVars>>

MCInit ==
  /\ part \in Parts
  /\ InputInit /\ (part # "input" => gate = FALSE)
  /\ SpeechInit /\ (part # "speech" => v11 = FALSE)
  /\ LifeInit /\ OutputInit
  /\ DetectionInit /\ (part # "detection" => serial = FALSE /\ through = FALSE /\ silero = FALSE)
  /\ ConversationInit /\ (part # "conversation" => chats = <<>> /\ hermes.deferring = FALSE)
  /\ LocalInit /\ (part # "local" => wire.managed = FALSE)
  /\ ServerInit
  /\ DelegationInit /\ (part # "delegation" => \A w \in Asks : ask[w].key = k1)

MCNext ==
  /\ UNCHANGED part
  /\ \/ /\ part = "input" /\ InputNext
        /\ UNCHANGED <<speechVars, lifeVars, outputVars, detectionVars, aroundVars>>
     \/ /\ part = "speech" /\ SpeechNext
        /\ UNCHANGED <<inputVars, lifeVars, outputVars, detectionVars, aroundVars>>
     \/ /\ part = "lifecycle" /\ LifeNext
        /\ UNCHANGED <<inputVars, speechVars, outputVars, detectionVars, aroundVars>>
     \/ /\ part = "output" /\ OutputNext
        /\ UNCHANGED <<inputVars, speechVars, lifeVars, detectionVars, aroundVars>>
     \/ /\ part = "detection" /\ DetectionNext
        /\ UNCHANGED <<inputVars, speechVars, lifeVars, outputVars, aroundVars>>
     \/ /\ UNCHANGED <<inputVars, speechVars, lifeVars, outputVars, detectionVars>>
        /\ \/ /\ part = "conversation" /\ ConversationNext
              /\ UNCHANGED <<localVars, serverVars, delegationVars>>
           \/ /\ part = "local" /\ LocalNext
              /\ UNCHANGED <<conversationVars, serverVars, delegationVars>>
           \/ /\ part = "server" /\ ServerNext
              /\ UNCHANGED <<conversationVars, localVars, delegationVars>>
           \/ /\ part = "delegation" /\ DelegationNext
              /\ UNCHANGED <<conversationVars, localVars, serverVars>>

MCSpec == MCInit /\ [][MCNext]_mcVars

\* The parts whose progress is checked, with the fairness of their timers
\* and promises.
MCLiveInit == MCInit /\ part \in {"speech", "detection", "server"}
MCLive == MCLiveInit /\ [][MCNext]_mcVars /\ SpeechFair /\ DetectionFair /\ ServerFair

\* Where no constant tells the members apart.
Alike == Permutations(Calls) \cup Permutations(Sessions)
=============================================================================
