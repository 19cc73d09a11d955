--------------------------- MODULE TelegramRelay ---------------------------
(***************************************************************************)
(* The relay of noboom_telegram_relay/relay.py, and its callers: threads   *)
(* that post a notice each and wait for the answer (notifications/         *)
(* sinks.py).  Every request has a handler thread of its own, which looks  *)
(* up the chat and asks Telegram to send; the caller gives up after the    *)
(* same ten seconds as the handler's call of Telegram, which begins later, *)
(* so that a notice may arrive after its caller has posted the next one.   *)
(* The links are in a database, one transaction each; here, the link of    *)
(* one token.  A notice is posted once.                                    *)
(***************************************************************************)
EXTENDS Sequences, FiniteSets, Functions

CONSTANTS Chats,     \* chats that may follow the link of the token
          Posters,   \* threads that post
          MaxUpsets  \* bound: notices that meet an error or a timeout

Nobody == "nobody"
Nothing == <<>>
Unread == "unread"

VARIABLES link,     \* subscriptions: the chat of the token, or Nobody
          requests, \* notices with a handler thread: Unread, or the chat it found
          awaiting, \* the notice whose answer a thread waits for, or Nothing
          heard,    \* what Telegram has sent, in its order
          lost,     \* notices that will not be heard
          givenUp   \* notices whose caller timed out

relayVars == <<link, requests, awaiting, heard, lost, givenUp>>

Upsetting == Cardinality(lost) + Cardinality(givenUp) < MaxUpsets

RelayInit ==
  /\ link \in Chats \cup {Nobody}
  /\ requests = [n \in {} |-> Unread]
  /\ awaiting = [t \in Posters |-> Nothing]
  /\ heard = <<>> /\ lost = {} /\ givenUp = {}

\* urlopen: the relay has the request, or cannot be reached.
Post(t, n) ==
  /\ awaiting[t] = Nothing
  /\ \/ /\ requests' = [m \in DOMAIN requests \cup {n} |-> IF m = n THEN Unread ELSE requests[m]]
        /\ awaiting' = [awaiting EXCEPT ![t] = n]
        /\ UNCHANGED lost
     \/ /\ Upsetting
        /\ lost' = lost \cup {n}
        /\ UNCHANGED <<requests, awaiting>>
  /\ UNCHANGED <<link, heard, givenUp>>

\* The handlers of these notices end, with an answer or without.
EndRequests(notices) ==
  /\ requests' = Restrict(requests, DOMAIN requests \ notices)
  /\ awaiting' = [t \in Posters |-> IF awaiting[t] \in notices THEN Nothing ELSE awaiting[t]]

\* chat_id_for_token: no chat, or a database that is in use, ends the handler.
LookUp(n) ==
  /\ requests[n] = Unread
  /\ \/ /\ link # Nobody
        /\ requests' = [requests EXCEPT ![n] = link]
        /\ UNCHANGED <<awaiting, lost>>
     \/ /\ link = Nobody \/ Upsetting
        /\ EndRequests({n})
        /\ lost' = lost \cup {n}
  /\ UNCHANGED <<link, heard, givenUp>>

\* send_message: an error of Telegram ends the handler and its connection; the
\* message may have been sent all the same.
Forward(n) ==
  /\ requests[n] \in Chats
  /\ \/ heard' = Append(heard, [chat |-> requests[n], notice |-> n]) /\ UNCHANGED lost
     \/ Upsetting /\ lost' = lost \cup {n} /\ UNCHANGED heard
  /\ EndRequests({n})
  /\ UNCHANGED <<link, givenUp>>

\* The caller's timeout: the handler does not learn of it.
TimeOut(t) ==
  /\ Upsetting
  /\ awaiting[t] # Nothing
  /\ givenUp' = givenUp \cup {awaiting[t]}
  /\ awaiting' = [awaiting EXCEPT ![t] = Nothing]
  /\ UNCHANGED <<link, requests, heard, lost>>

\* _handle_webhook: a chat has followed the link.
Subscribe(c) ==
  /\ link # c
  /\ link' = c
  /\ UNCHANGED <<requests, awaiting, heard, lost, givenUp>>

RelayRestarts ==
  /\ Upsetting
  /\ lost' = lost \cup DOMAIN requests
  /\ EndRequests(DOMAIN requests)
  /\ UNCHANGED <<link, heard, givenUp>>

RelayNext ==
  \/ \E n \in DOMAIN requests : LookUp(n) \/ Forward(n)
  \/ \E t \in Posters : TimeOut(t)
  \/ \E c \in Chats : Subscribe(c)
  \/ RelayRestarts
=============================================================================
