---------------------------- MODULE P2PTopicSync ----------------------------
(***************************************************************************)
(* AMOP topic synchronisation over one P2P connection (libp2p/P2PSession). *)
(* Node A's service publishes a topic list and its topicSeq; A's          *)
(* P2PSession for the peer sends SendTopicSeq on every heartbeat.  Node   *)
(* B's P2PSession for A keeps m_topicSeq and m_topics, its copy of A's    *)
(* list: when a heartbeat carries another seq it sends RequestTopics, A   *)
(* answers with SendTopics "seq\ttopic...", and the response callback    *)
(* parses the list against the topics it holds and calls setTopics.      *)
(* Topics that need a certificate start VERIFYING and B asks the AMOP     *)
(* handler for a random value to verify them (requestRandValue).          *)
(*                                                                         *)
(* Handlers run on the network's thread pool, so messages are an          *)
(* unordered set, and the two reads of A's RequestTopics handler and the   *)
(* two steps of B's callback (read m_topics, then setTopics) are separate  *)
(* actions.  Messages may be lost (a lost SendTopics is the 5 s timeout   *)
(* path of the callback) and the connection may drop and come back as a   *)
(* new pair of sessions.  A's service (setTopics and its seq) and the     *)
(* AMOP handlers are the environment: not under src.  Verification runs  *)
(* through them: B's AMOP handler, asked for a random value, sends A a    *)
(* RequestSign; A's session hands it to A's AMOP handler (signForAmop),   *)
(* which answers with RequestCheckSign; B's session hands that to B's     *)
(* AMOP handler, which checks the signature and marks the topic verified. *)
(***************************************************************************)
EXTENDS Naturals, FiniteSets

CONSTANTS
  Topics,       \* topic names A may publish
  CertTopics,   \* those with topicNeedCertPrefix
  MaxUpdates,   \* bound on A's topic updates
  MaxLoss,      \* bound on lost messages
  MaxSessions   \* bound on connections (sessions started)

ASSUME CertTopics \subseteq Topics

VARIABLES
  seqA,      \* service->topicSeq() at A
  topicsA,   \* service->topics() at A
  conn,      \* the connection: "up" or "down"
  timer,     \* m_timer of A's session is armed
  bSeq,      \* m_topicSeq of B's session for A
  bView,     \* m_topics of B's session: topic -> status
  net,       \* messages in flight
  reading,   \* seqs A's RequestTopics handlers read, topics not yet read
  cb,        \* B's callbacks that read m_topics and have not set them yet
  randReq,   \* topics B asked the AMOP handler a random value for
  amopA,     \* topics signForAmop handed to A's AMOP handler (CMD_REQUEST_SIGN)
  amopB,     \* topics signForAmop handed to B's AMOP handler (CMD_REQUEST_CHECKSIGN)
  updates, losses, starts

vars == <<seqA, topicsA, conn, timer, bSeq, bView, net, reading, cb,
          randReq, amopA, amopB, updates, losses, starts>>

Status == {"VERIFYING_STATUS", "VERIFYI_SUCCESS_STATUS"}

SendTopicSeq(s) == [type |-> "SendTopicSeq", seq |-> s]
RequestTopics == [type |-> "RequestTopics"]
SendTopics(s, T) == [type |-> "SendTopics", seq |-> s, topics |-> T]
RequestSign(t) == [type |-> "RequestSign", topic |-> t]
RequestCheckSign(t) == [type |-> "RequestCheckSign", topic |-> t]

NoTopics == [t \in {} |-> "VERIFYI_SUCCESS_STATUS"]

Init ==
  /\ seqA = 0 /\ topicsA = {}
  /\ conn = "down" /\ timer = FALSE
  /\ bSeq = 0 /\ bView = NoTopics
  /\ net = {} /\ reading = {} /\ cb = {} /\ randReq = {}
  /\ amopA = {} /\ amopB = {}
  /\ updates = 0 /\ losses = 0 /\ starts = 0

(* The environment: A's service replaces its topic list and bumps seq.    *)
UpdateTopics(T) ==
  /\ updates < MaxUpdates
  /\ topicsA' = T /\ seqA' = seqA + 1 /\ updates' = updates + 1
  /\ UNCHANGED <<conn, timer, bSeq, bView, net, reading, cb, randReq, amopA, amopB, losses, starts>>

(* start(): a new pair of sessions (m_topicSeq 0, no topics) runs and     *)
(* heartBeat() sends the first SendTopicSeq and arms the timer.           *)
Start ==
  /\ conn = "down" /\ starts < MaxSessions
  /\ conn' = "up" /\ starts' = starts + 1 /\ timer' = TRUE
  /\ bSeq' = 0 /\ bView' = NoTopics /\ randReq' = {}
  /\ net' = {SendTopicSeq(seqA)}
  /\ UNCHANGED <<seqA, topicsA, reading, cb, amopA, amopB, updates, losses>>

(* stop(): disconnect.  Messages in flight are gone and the callbacks and *)
(* handlers still running write to sessions no one uses any more.  Only  *)
(* while another start remains, so the connection always comes back.    *)
Stop ==
  /\ conn = "up" /\ starts < MaxSessions
  /\ conn' = "down" /\ timer' = FALSE
  /\ net' = {} /\ reading' = {} /\ cb' = {}
  /\ UNCHANGED <<seqA, topicsA, bSeq, bView, randReq, amopA, amopB, updates, losses, starts>>

(* Mutant: the timer is not re-armed after the first heartbeat.           *)
HeartBeatOnce ==
  /\ conn = "up" /\ timer
  /\ net' = net \cup {SendTopicSeq(seqA)}
  /\ timer' = FALSE
  /\ UNCHANGED <<seqA, topicsA, conn, bSeq, bView, reading, cb, randReq, amopA, amopB, updates, losses, starts>>

(* heartBeat() on the timer: send SendTopicSeq with the current seq, re-arm.*)
HeartBeat ==
  /\ conn = "up" /\ timer
  /\ net' = net \cup {SendTopicSeq(seqA)}
  /\ timer' = TRUE
  /\ UNCHANGED <<seqA, topicsA, conn, bSeq, bView, reading, cb, randReq, amopA, amopB, updates, losses, starts>>

(* Mutant: B records the heartbeat's seq as soon as it asks for the list. *)
ReceiveTopicSeqEager(m) ==
  /\ m.type = "SendTopicSeq"
  /\ net' = (net \ {m}) \cup (IF bSeq # m.seq THEN {RequestTopics} ELSE {})
  /\ bSeq' = m.seq
  /\ UNCHANGED <<seqA, topicsA, conn, timer, bView, reading, cb, randReq, amopA, amopB, updates, losses, starts>>

(* B, onTopicMessage(SendTopicSeq): request the list when seqs differ.    *)
ReceiveTopicSeq(m) ==
  /\ m.type = "SendTopicSeq"
  /\ net' = (net \ {m}) \cup (IF bSeq # m.seq THEN {RequestTopics} ELSE {})
  /\ UNCHANGED <<seqA, topicsA, conn, timer, bSeq, bView, reading, cb, randReq, amopA, amopB, updates, losses, starts>>

(* A, onTopicMessage(RequestTopics): read service->topicSeq() ...         *)
ServeReadSeq(m) ==
  /\ m.type = "RequestTopics"
  /\ net' = net \ {m}
  /\ reading' = reading \cup {seqA}
  /\ UNCHANGED <<seqA, topicsA, conn, timer, bSeq, bView, cb, randReq, amopA, amopB, updates, losses, starts>>

(* ... then service->topics(), and send SendTopics.                        *)
ServeReadTopics(s) ==
  /\ reading' = reading \ {s}
  /\ net' = net \cup {SendTopics(s, topicsA)}
  /\ UNCHANGED <<seqA, topicsA, conn, timer, bSeq, bView, cb, randReq, amopA, amopB, updates, losses, starts>>

(* parseTopicList: a cert topic keeps the status it had in the list read  *)
(* before, a new one is VERIFYING; any other topic is verified.           *)
ParseTopicList(T, orig) ==
  [t \in T |-> IF t \notin CertTopics THEN "VERIFYI_SUCCESS_STATUS"
               ELSE IF t \in DOMAIN orig THEN orig[t] ELSE "VERIFYING_STATUS"]

(* B's response callback, first half: the response arrives and the       *)
(* callback reads session->topics().                                     *)
ReceiveTopics(m) ==
  /\ m.type = "SendTopics"
  /\ net' = net \ {m}
  /\ cb' = cb \cup {[seq |-> m.seq, topics |-> m.topics, orig |-> bView]}
  /\ UNCHANGED <<seqA, topicsA, conn, timer, bSeq, bView, reading, randReq, amopA, amopB, updates, losses, starts>>

(* requestRandValue for each topic of the list that is VERIFYING: a       *)
(* CMD_REQUEST_RANDVALUE for it handed to the AMOP handler.                *)
RequestRandValue(list) == {t \in DOMAIN list : list[t] = "VERIFYING_STATUS"}

(* Second half: parseTopicList, setTopics, then requestRandValue for     *)
(* every topic of the new list that is VERIFYING.                         *)
SetTopics(c) ==
  LET list == ParseTopicList(c.topics, c.orig) IN
  /\ cb' = cb \ {c}
  /\ bSeq' = c.seq /\ bView' = list
  /\ randReq' = randReq \cup RequestRandValue(list)
  /\ UNCHANGED <<seqA, topicsA, conn, timer, net, reading, amopA, amopB, updates, losses, starts>>

(* A message is lost; for SendTopics this is the callback's timeout error,*)
(* after which it returns without touching the session.                   *)
LoseMessage(m) ==
  /\ losses < MaxLoss
  /\ net' = net \ {m} /\ losses' = losses + 1
  /\ UNCHANGED <<seqA, topicsA, conn, timer, bSeq, bView, reading, cb, randReq, amopA, amopB, updates, starts>>

(* The environment: B's AMOP handler, holding a random value for a topic, *)
(* sends A a RequestSign over the connection (again if it was lost).     *)
AmopRequestSign(t) ==
  /\ conn = "up" /\ t \in randReq /\ RequestSign(t) \notin net
  /\ net' = net \cup {RequestSign(t)}
  /\ UNCHANGED <<seqA, topicsA, conn, timer, bSeq, bView, reading, cb, randReq, amopA, amopB, updates, losses, starts>>

(* The environment: A's AMOP handler signs and answers RequestCheckSign.  *)
AmopRequestCheckSign(t) ==
  /\ conn = "up" /\ t \in amopA
  /\ amopA' = amopA \ {t}
  /\ net' = net \cup {RequestCheckSign(t)}
  /\ UNCHANGED <<seqA, topicsA, conn, timer, bSeq, bView, reading, cb, randReq, amopB, updates, losses, starts>>

(* onTopicMessage(RequestSign / RequestCheckSign), signForAmop: decode the *)
(* channel message (a malformed one is logged and dropped), set the cmd    *)
(* type and seq and call the node's AMOP handler with it: A's for          *)
(* RequestSign, B's for RequestCheckSign.                                  *)
SignForAmop(m) ==
  /\ m.type \in {"RequestSign", "RequestCheckSign"}
  /\ net' = net \ {m}
  /\ IF m.type = "RequestSign"
       THEN amopA' = amopA \cup {m.topic} /\ UNCHANGED amopB
       ELSE amopB' = amopB \cup {m.topic} /\ UNCHANGED amopA
  /\ UNCHANGED <<seqA, topicsA, conn, timer, bSeq, bView, reading, cb, randReq, updates, losses, starts>>

(* The environment: B's AMOP handler checks the signature and the topic is *)
(* verified in B's session.                                               *)
Verified(t) ==
  /\ t \in amopB /\ t \in randReq
  /\ t \in DOMAIN bView /\ bView[t] = "VERIFYING_STATUS"
  /\ bView' = [bView EXCEPT ![t] = "VERIFYI_SUCCESS_STATUS"]
  /\ randReq' = randReq \ {t} /\ amopB' = amopB \ {t}
  /\ UNCHANGED <<seqA, topicsA, conn, timer, bSeq, net, reading, cb, amopA, updates, losses, starts>>

Next ==
  \/ \E T \in SUBSET Topics : UpdateTopics(T)
  \/ Start \/ Stop \/ HeartBeat
  \/ \E m \in net : ReceiveTopicSeq(m) \/ ServeReadSeq(m) \/ ReceiveTopics(m) \/ SignForAmop(m)
                   \/ LoseMessage(m)
  \/ \E s \in reading : ServeReadTopics(s)
  \/ \E c \in cb : SetTopics(c)
  \/ \E t \in CertTopics : AmopRequestSign(t) \/ AmopRequestCheckSign(t) \/ Verified(t)

Views == UNION {[T -> Status] : T \in SUBSET Topics}

Messages ==
  {SendTopicSeq(s) : s \in 0..MaxUpdates} \cup {RequestTopics}
  \cup {SendTopics(s, T) : s \in 0..MaxUpdates, T \in SUBSET Topics}
  \cup {RequestSign(t) : t \in CertTopics} \cup {RequestCheckSign(t) : t \in CertTopics}

Callbacks == [seq : 0..MaxUpdates, topics : SUBSET Topics, orig : Views]

(* The timer, the handler threads and the AMOP handler keep running and   *)
(* each message, read and callback is eventually handled; the             *)
(* environment's updates, losses and disconnects may or may not happen.   *)
Fairness ==
  /\ WF_vars(Start) /\ WF_vars(HeartBeat)
  /\ \A m \in Messages :
       WF_vars(m \in net /\ (ReceiveTopicSeq(m) \/ ServeReadSeq(m) \/ ReceiveTopics(m)
                               \/ SignForAmop(m)))
  /\ \A s \in 0..MaxUpdates : WF_vars(s \in reading /\ ServeReadTopics(s))
  /\ \A c \in Callbacks : WF_vars(c \in cb /\ SetTopics(c))
  /\ \A t \in CertTopics :
       WF_vars(AmopRequestSign(t)) /\ WF_vars(AmopRequestCheckSign(t)) /\ WF_vars(Verified(t))

Spec == Init /\ [][Next]_vars /\ Fairness

-----------------------------------------------------------------------------
(* When B's seq for A equals A's, B's topic list is A's: B stops asking   *)
(* only when it really holds A's list.  A's RequestTopics handler reads   *)
(* topicSeq() before topics(), so a list updated between the two reads    *)
(* goes out under the older seq and B asks again on the next heartbeat.   *)
InSync ==
  conn = "up" /\ bSeq = seqA => DOMAIN bView = topicsA

(* Once A stops changing its topics and the connection stops dropping, B  *)
(* ends up holding A's seq and topic list with every topic verified, and *)
(* keeps them, whatever was lost, delayed or answered out of order.      *)
Converges ==
  <>[](/\ conn = "up" /\ bSeq = seqA /\ DOMAIN bView = topicsA
       /\ \A t \in DOMAIN bView : bView[t] = "VERIFYI_SUCCESS_STATUS")
=============================================================================
