------------------------------ MODULE Threads ------------------------------
(***************************************************************************)
(* Chat threads (api/chat.py, api/call_chat.py) and the agent that answers *)
(* in them (chat/agent.py, tools.py, sql.py).  A request authorises, then  *)
(* a generator with a session of its own reads the thread, commits the     *)
(* question, runs the agent while the browser reads the stream, and        *)
(* commits the answer.  Nothing stops two requests in one thread.          *)
(***************************************************************************)
EXTENDS Integers, Sequences, FiniteSets, FiniteSetsExt, NoValue

CONSTANTS Asker, MaxThreads, MaxRounds, MaxMessages

(* The threads of one user, some of them about one call.                    *)
VARIABLES threads, messages, asking

threadVars == <<threads, messages, asking>>

(* threads: call TRUE for a thread about the call.  Its opt-in to the audio *)
(* tool only selects what the agent is offered.                             *)
ThreadInit ==
  /\ threads = <<>> /\ messages = {}
  /\ asking = [r \in Asker |-> None]

(* A deleted thread keeps its place, marked gone.                           *)
LiveThreads == {t \in DOMAIN threads : ~threads[t].gone}
CallThreads == {t \in LiveThreads : threads[t].call}

History(t) == {m \in messages : m.thread = t}
NextSeq(t) == Max({0} \cup {m.seq : m \in History(t)}) + 1

(* uq_chat_message_seq, and the foreign key to the conversation.            *)
Accepted(t, seq) == t \in LiveThreads /\ \A m \in History(t) : m.seq # seq

-----------------------------------------------------------------------------
NewThread(call) == [call |-> call, gone |-> FALSE]

CreateThread ==
  /\ Len(threads) < MaxThreads /\ threads' = Append(threads, NewThread(FALSE))
  /\ UNCHANGED <<messages, asking>>

DeleteThread(t) ==
  /\ t \in LiveThreads /\ messages' = messages \ History(t)
  /\ threads' = [threads EXCEPT ![t].gone = TRUE]
  /\ UNCHANGED asking

(* stream_message: the thread is there; the generator starts later.         *)
AskInThread(r, t) ==
  /\ asking[r] = None /\ t \in LiveThreads
  /\ asking' = [asking EXCEPT ![r] = [at |-> "asked", thread |-> t, call |-> FALSE]]
  /\ UNCHANGED <<threads, messages>>

(* _thread, of the call's page or of a question: the one there is, or a new *)
(* one.  Two requests that both found none make two.  The generator looks   *)
(* again: a thread deleted since the request began is made anew.            *)
Lost(r) == asking[r] # None /\ asking[r].at = "asked" /\ asking[r].call /\ asking[r].thread \notin LiveThreads

OpenCallThread(r) ==
  /\ asking[r] = None \/ Lost(r)
  /\ asking' = [asking EXCEPT ![r] =
       [at |-> "opening", thread |-> IF CallThreads = {} THEN None
                                     ELSE CHOOSE t \in CallThreads : TRUE]]
  /\ UNCHANGED <<threads, messages>>

CallThreadOpened(r) ==
  /\ asking[r] # None /\ asking[r].at = "opening"
  /\ IF asking[r].thread # None THEN UNCHANGED threads
     ELSE Len(threads) < MaxThreads /\ threads' = Append(threads, NewThread(TRUE))
  /\ LET t == IF asking[r].thread # None THEN asking[r].thread ELSE Len(threads')
     IN asking' = [asking EXCEPT ![r] = [at |-> "asked", thread |-> t, call |-> TRUE]]
  /\ UNCHANGED messages

(* _run reads what has been said, then the next number, ...                 *)
ReadHistory(r) ==
  /\ asking[r] # None /\ asking[r].at = "asked" /\ ~Lost(r)
  /\ asking' = [asking EXCEPT ![r] =
       [at |-> "read", thread |-> asking[r].thread, call |-> asking[r].call,
        history |-> Cardinality(History(asking[r].thread))]]
  /\ UNCHANGED <<threads, messages>>

ReadSeq(r) ==
  /\ asking[r] # None /\ asking[r].at = "read"
  /\ asking' = [asking EXCEPT ![r] =
       [at |-> "numbered", thread |-> asking[r].thread, call |-> asking[r].call,
        history |-> asking[r].history, seq |-> NextSeq(asking[r].thread)]]
  /\ UNCHANGED <<threads, messages>>

QuestionMessage(r) == [thread |-> asking[r].thread, seq |-> asking[r].seq, by |-> r, role |-> "user",
                history |-> 0]

(* ... and commits the question.                                            *)
CommitQuestion(r) ==
  /\ asking[r] # None /\ asking[r].at = "numbered"
  /\ Cardinality(messages) < MaxMessages
  /\ LET f == asking[r] IN
     IF Accepted(f.thread, f.seq)
     THEN /\ messages' = messages \cup {QuestionMessage(r)}
          /\ asking' = [asking EXCEPT ![r] =
               [at |-> "answering", thread |-> f.thread, call |-> f.call, seq |-> f.seq,
                history |-> f.history, rounds |-> 0]]
     ELSE asking' = [asking EXCEPT ![r] = None] /\ UNCHANGED messages
  /\ UNCHANGED threads

Answering(r) == asking[r] # None /\ asking[r].at = "answering"

(* A tool round of the agent reads only; after MaxRounds the answer is due. *)
ToolRound(r) ==
  /\ Answering(r) /\ asking[r].rounds < MaxRounds
  /\ asking' = [asking EXCEPT ![r].rounds = @ + 1]
  /\ UNCHANGED <<threads, messages>>

AnswerSeqAtEnd(r) == NextSeq(asking[r].thread)
AnswerSeq(r) == asking[r].seq + 1

AnswerMessage(r) == [thread |-> asking[r].thread, seq |-> AnswerSeq(r), by |-> r, role |-> "assistant",
              history |-> asking[r].history]

(* The agent is done or failed, which it also reports as an event: the      *)
(* answer, then possibly empty, is committed if its number is still free.   *)
CommitAnswer(r) ==
  /\ Answering(r)
  /\ messages' = IF Accepted(asking[r].thread, AnswerSeq(r)) THEN messages \cup {AnswerMessage(r)}
                 ELSE messages
  /\ asking' = [asking EXCEPT ![r] = None]
  /\ UNCHANGED threads

(* No model or no membership, an error, or the browser left the stream: the *)
(* generator closes its session where it stood.                             *)
CloseStream(r) ==
  /\ asking[r] # None /\ asking' = [asking EXCEPT ![r] = None]
  /\ UNCHANGED <<threads, messages>>

ThreadNext ==
  \/ CreateThread
  \/ \E t \in DOMAIN threads : DeleteThread(t)
  \/ \E r \in Asker :
       \/ \E t \in DOMAIN threads : AskInThread(r, t)
       \/ OpenCallThread(r) \/ CallThreadOpened(r) \/ ReadHistory(r) \/ ReadSeq(r) \/ CommitQuestion(r)
       \/ ToolRound(r) \/ CommitAnswer(r) \/ CloseStream(r)

ThreadSpec == ThreadInit /\ [][ThreadNext]_threadVars

-----------------------------------------------------------------------------
(* Whoever else asks in the thread meanwhile, its messages are numbered     *)
(* without a gap, an answer stands right after its own question, and its    *)
(* model was told nothing that stands behind that question.                 *)
AnswersItsQuestion ==
  /\ \A t \in LiveThreads : {m.seq : m \in History(t)} = 1 .. Cardinality(History(t))
  /\ \A m \in messages : m.role = "assistant" =>
       /\ \E q \in History(m.thread) : q.role = "user" /\ q.by = m.by /\ q.seq = m.seq - 1
       /\ m.history < m.seq - 1
=============================================================================
