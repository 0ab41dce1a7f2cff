----------------------------- MODULE StunAgent -----------------------------
(***************************************************************************)
(* The STUN agent (stun/stunagent.c): how requests are finished and        *)
(* remembered, and how a received message is validated.  These are         *)
(* operators on an agent; the modules of the agent's users keep one as     *)
(* part of their state.                                                    *)
(*                                                                         *)
(* An agent is [compat, flags, sent]: the compatibility, the usage flags   *)
(* and sent_ids, the transactions remembered.  A message is                *)
(*   [shape, class, method, id, cookie, fpr, attrs, code, mac]             *)
(* where shape is what the length checks find ("whole", "partial" or       *)
(* "garbage"), fpr is "none", "good" or "bad", attrs is the set of         *)
(* attributes present, code is an error code or 0, and mac is the key the  *)
(* MESSAGE-INTEGRITY was made with: HMAC-SHA1 and CRC-32 are taken to be   *)
(* collision free.                                                         *)
(***************************************************************************)
EXTENDS Integers, FiniteSets

CONSTANTS
    MaxSavedIds,   \* STUN_AGENT_MAX_SAVED_IDS (200)
    NoKey          \* the absence of a key

ASSUME SavedIdsAssumption == MaxSavedIds \in Nat \ {0}

\* stun_agent_init
stun_agent_init(compat, flags) == [compat |-> compat, flags |-> flags, sent |-> {}]

\* Agents of these compatibilities put the magic cookie in front of the id
HasCookies(a) == a.compat \in {"RFC5389", "WLM2009"}
LongTerm(a) == "LONG_TERM_CREDENTIALS" \in a.flags
ShortTerm(a) == "SHORT_TERM_CREDENTIALS" \in a.flags

\* stun_agent_init_request and stun_agent_init_indication, with the attributes
\* the caller appends: the message before it is finished
stun_agent_init_message(a, class, method, id, attrs) ==
    [shape |-> "whole", class |-> class, method |-> method, id |-> id,
     cookie |-> HasCookies(a), fpr |-> "none", code |-> 0, mac |-> NoKey,
     attrs |-> attrs \cup (IF class = "REQUEST" /\ HasCookies(a) /\ "ADD_SOFTWARE" \in a.flags
                           THEN {"SOFTWARE"} ELSE {})]

\* stun_agent_init_response and stun_agent_init_error: the id and the cookie
\* are the request's; code is 0 for a response
stun_agent_init_reply(a, request, attrs, code) ==
    [stun_agent_init_message(a, IF code = 0 THEN "RESPONSE" ELSE "ERROR",
                             request.method, request.id,
                             attrs \cup (IF code = 0 THEN {} ELSE {"ERROR_CODE"}))
       EXCEPT !.cookie = request.cookie, !.code = code]


\* The key of the MESSAGE-INTEGRITY stun_agent_finish_message appends: with
\* long-term credentials it is derived from USERNAME and REALM, and without
\* one of them the message is not signed
Signature(a, msg, key) ==
    IF key = NoKey \/ (LongTerm(a) /\ ~({"USERNAME", "REALM"} \subseteq msg.attrs))
    THEN NoKey ELSE key

\* stun_agent_finish_message: [ok, agent, msg]; a request needs a free place
\* among the transactions remembered
stun_agent_finish_message(a, msg, key) ==
    LET mac == Signature(a, msg, key)
        m   == [msg EXCEPT
                  !.mac = mac,
                  !.attrs = @ \cup (IF mac # NoKey THEN {"MESSAGE_INTEGRITY"} ELSE {}),
                  !.fpr = IF HasCookies(a) /\ "USE_FINGERPRINT" \in a.flags THEN "good" ELSE @]
        t   == [id |-> msg.id, method |-> msg.method, key |-> key, ltk |-> LongTerm(a) /\ mac # NoKey]
    IN  CASE msg.class # "REQUEST" -> [ok |-> TRUE, agent |-> a, msg |-> m]
          [] msg.class = "REQUEST" /\ Cardinality(a.sent) < MaxSavedIds ->
                [ok |-> TRUE, agent |-> [a EXCEPT !.sent = @ \cup {t}], msg |-> m]
          [] OTHER -> [ok |-> FALSE, agent |-> a, msg |-> msg]

\* Mutant: forgetting a transaction leaves its place occupied
stun_agent_forget_kept(a, id) == a

\* stun_agent_forget_transaction
stun_agent_forget_transaction(a, id) == [a EXCEPT !.sent = {t \in @ : t.id # id}]

\* stun_message_validate_buffer_length as stun_agent_validate uses it
ShapeStatus(msg) == CASE msg.shape = "whole" -> "SUCCESS"
                      [] msg.shape = "partial" -> "INCOMPLETE_STUN"
                      [] OTHER -> "NOT_STUN"

\* The transaction a response or an error answers
Matches(a, msg) == {t \in a.sent : t.id = msg.id /\ t.method = msg.method}

\* Are the credentials of this message not looked at?
IgnoreCredentials(a, msg) ==
    \/ "IGNORE_CREDENTIALS" \in a.flags
    \/ msg.class = "ERROR" /\ msg.code \in {400, 401, 438}
    \/ msg.class = "INDICATION" /\ (LongTerm(a) \/ "NO_INDICATION_AUTH" \in a.flags)

\* Does a request or an indication lack attributes its credentials need?
LacksCredentials(a, msg) ==
    LET signed == {"USERNAME", "MESSAGE_INTEGRITY"}
    IN  \/ ShortTerm(a) /\ ~(signed \subseteq msg.attrs)
        \/ /\ LongTerm(a) /\ msg.class = "REQUEST"
           /\ ~((signed \cup {"NONCE", "REALM"}) \subseteq msg.attrs)
        \/ /\ "IGNORE_CREDENTIALS" \notin a.flags
           /\ "USERNAME" \in msg.attrs /\ "MESSAGE_INTEGRITY" \notin msg.attrs

\* The integrity part of stun_agent_validate, given the key that was found
IntegrityStatus(a, msg, key, ltk) ==
    CASE key = NoKey \/ IgnoreCredentials(a, msg) -> "SUCCESS"
      [] key # NoKey /\ ~IgnoreCredentials(a, msg) /\ "MESSAGE_INTEGRITY" \in msg.attrs ->
            IF LongTerm(a) /\ ~ltk /\ ~({"USERNAME", "REALM"} \subseteq msg.attrs)
            THEN "UNAUTHORIZED"
            ELSE IF msg.mac = key THEN "SUCCESS" ELSE "UNAUTHORIZED"
      [] OTHER -> IF msg.class = "ERROR" /\ msg.code \in {400, 401}
                  THEN "SUCCESS" ELSE "UNAUTHORIZED"

\* stun_agent_find_unknowns: what is left once everything else is in order
UnknownStatus(msg) ==
    CASE "UNKNOWN" \notin msg.attrs -> "SUCCESS"
      [] "UNKNOWN" \in msg.attrs /\ msg.class = "REQUEST" -> "UNKNOWN_REQUEST_ATTRIBUTE"
      [] OTHER -> "UNKNOWN_ATTRIBUTE"

\* The checks of stun_agent_validate before the transaction is taken; known is
\* the key the validater callback finds for the user name, or NoKey
Credentials(a, msg, known) ==
    LET reply == msg.class \in {"RESPONSE", "ERROR"}
        t     == CHOOSE s \in Matches(a, msg) : TRUE
        key   == IF reply THEN t.key ELSE NoKey
        ask   == /\ "MESSAGE_INTEGRITY" \in msg.attrs
                 /\ \/ key = NoKey /\ ~IgnoreCredentials(a, msg)
                    \/ "FORCE_VALIDATER" \in a.flags
    IN  CASE ShapeStatus(msg) # "SUCCESS" -> ShapeStatus(msg)
          [] ShapeStatus(msg) = "SUCCESS" /\ HasCookies(a)
             /\ (~msg.cookie \/ ("USE_FINGERPRINT" \in a.flags /\ msg.fpr # "good")) ->
                "BAD_REQUEST"
          [] OTHER ->
                IF reply /\ Matches(a, msg) = {} THEN "UNMATCHED_RESPONSE"
                ELSE IF ~reply /\ ~IgnoreCredentials(a, msg) /\ LacksCredentials(a, msg)
                THEN "UNAUTHORIZED_BAD_REQUEST"
                ELSE IF ask /\ known = NoKey THEN "UNAUTHORIZED"
                ELSE IntegrityStatus(a, msg, IF ask THEN known ELSE key, reply /\ t.ltk)

\* stun_agent_validate: [status, agent]; the transaction of a response is
\* forgotten as soon as its credentials are in order
stun_agent_validate(a, msg, known) ==
    LET status == Credentials(a, msg, known)
    IN  IF status # "SUCCESS" THEN [status |-> status, agent |-> a]
        ELSE [status |-> UnknownStatus(msg),
              agent |-> IF msg.class \in {"RESPONSE", "ERROR"}
                        THEN [a EXCEPT !.sent = @ \ Matches(a, msg)] ELSE a]

=============================================================================
