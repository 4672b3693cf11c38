---------------------------- MODULE FeishuClient ----------------------------
(***************************************************************************)
(* One message to Feishu (notifications/feishu.py): the cached tenant      *)
(* token, its single renewal, three tries.                                 *)
(*                                                                         *)
(* Calls of send_text come one at a time: RuntimeService makes them under  *)
(* its notifier lock.  The server may drop a request or lose its answer,   *)
(* be busy, refuse, answer what is not JSON and take a token back at any   *)
(* time.  A call resets everything but the cache, so there is no bound to  *)
(* choose; the pause between two tries is left out, nothing runs in it.    *)
(***************************************************************************)
EXTENDS Naturals

CONSTANT Tries  \* 3 in the code

ASSUME FeishuAssumption == Tries \in Nat \ {0}

VARIABLES
  step,       \* what send_text waits for: auth, post or renew; idle, sent or failed
  token,      \* token of this call, "none" before it has one
  cached,     \* _token
  fresh,      \* now < _token_expires_at
  attempt,    \* attempt
  refreshed,  \* refreshed
  posts,      \* history of the call: messages posted
  accepted,   \* history of the call: messages the server took
  unheard,    \* history of the call: those whose answer was lost
  rejected,   \* history of the call: tokens the server rejected
  wrong       \* history of the call: the last thing that went wrong, and at which step

tokens == <<token, cached, fresh>>
callHistory == <<posts, accepted, unheard, rejected, wrong>>
NothingWrong == [kind |-> "nothing", of |-> "idle"]
fvars == <<step, tokens, attempt, refreshed, callHistory>>

FInit ==
  /\ step = "idle"
  /\ token = "none" /\ cached = "none" /\ fresh = FALSE
  /\ attempt = 0 /\ refreshed = FALSE
  /\ posts = 0 /\ accepted = 0 /\ unheard = 0 /\ rejected = 0
  /\ wrong = NothingWrong

InCall == step \in {"auth", "post", "renew"}

SendText ==
  /\ ~InCall
  /\ attempt' = 0 /\ refreshed' = FALSE
  /\ posts' = 0 /\ accepted' = 0 /\ unheard' = 0 /\ rejected' = 0
  /\ wrong' = NothingWrong
  /\ \/ step' = "failed" /\ token' = "none"  \* nothing configured
     \/ IF cached # "none" /\ fresh THEN step' = "post" /\ token' = cached
        ELSE step' = "auth" /\ token' = "none"
  /\ UNCHANGED <<cached, fresh>>

(* What went wrong, whatever the client makes of it: the request or its    *)
(* answer was lost ("network"), the server is too busy for it (429, 5xx,   *)
(* 230049: "busy"), answers what is not JSON or lacks what it must have    *)
(* ("garbled"), refuses for good, or rejects the token.                    *)
Wrong(kind) == wrong' = [kind |-> kind, of |-> step]

(* Fault: what went wrong at the last try is not raised. *)
NextTryFallsThrough ==
  IF attempt = Tries - 1 THEN step' = "sent" /\ UNCHANGED attempt
  ELSE step' = "post" /\ attempt' = attempt + 1

(* What a network error or a busy server leads to. *)
NextTry ==
  IF attempt = Tries - 1 THEN step' = "failed" /\ UNCHANGED attempt
  ELSE step' = "post" /\ attempt' = attempt + 1

NewToken ==
  /\ token' = "valid"
  /\ cached' = "valid"
  /\ fresh' = TRUE

(* The first token is asked for outside of the tries: whatever goes wrong  *)
(* ends the call.                                                          *)
FirstToken ==
  /\ step = "auth"
  /\ \/ NewToken /\ step' = "post" /\ UNCHANGED wrong
     \/ /\ \E kind \in {"network", "busy", "garbled", "refused"}: Wrong(kind)
        /\ step' = "failed"
        /\ UNCHANGED tokens
  /\ UNCHANGED <<attempt, refreshed, posts, accepted, unheard, rejected>>

(* Fault: a renewal that failed for the moment is no try and asked for again. *)
RenewAgain ==
  /\ step = "renew"
  /\ \/ /\ NewToken
        /\ refreshed' = TRUE
        /\ NextTry
        /\ UNCHANGED wrong
     \/ /\ Wrong("network") \/ Wrong("busy")
        /\ UNCHANGED <<step, attempt, tokens, refreshed>>
     \/ /\ Wrong("garbled") \/ Wrong("refused")
        /\ step' = "failed"
        /\ UNCHANGED <<tokens, refreshed, attempt>>
  /\ UNCHANGED <<posts, accepted, unheard, rejected>>

(* A rejected token is renewed.  A network error counts as a try, and the  *)
(* next one goes on with the rejected token; any other error ends the      *)
(* call.  A renewal after the last try only serves the next call.          *)
Renew ==
  /\ step = "renew"
  /\ \/ /\ NewToken
        /\ refreshed' = TRUE
        /\ NextTry
        /\ UNCHANGED wrong
     \/ Wrong("network") /\ NextTry /\ UNCHANGED <<tokens, refreshed>>
     \/ /\ \E kind \in {"busy", "garbled", "refused"}: Wrong(kind)
        /\ step' = "failed"
        /\ UNCHANGED <<tokens, refreshed, attempt>>
  /\ UNCHANGED <<posts, accepted, unheard, rejected>>

----------------------------------------------------------------------------
(* A post and what comes back. *)

(* Fault: an answer of the wrong form is retried. *)
AcceptedRetried ==
  /\ token = "valid"
  /\ accepted' = accepted + 1
  /\ \/ step' = "sent" /\ UNCHANGED <<attempt, unheard, wrong>>
     \/ /\ Wrong("network") \/ Wrong("busy")
        /\ NextTry
        /\ unheard' = unheard + 1
     \/ Wrong("garbled") /\ NextTry /\ UNCHANGED unheard
  /\ UNCHANGED <<tokens, refreshed, rejected>>

(* Taken: the answer arrives, is lost (also behind a gateway that gives up *)
(* waiting for it), or is not what it should be.                           *)
Accepted ==
  /\ token = "valid"
  /\ accepted' = accepted + 1
  /\ \/ step' = "sent" /\ UNCHANGED <<attempt, unheard, wrong>>
     \/ /\ Wrong("network") \/ Wrong("busy")
        /\ NextTry
        /\ unheard' = unheard + 1
     \/ Wrong("garbled") /\ step' = "failed" /\ UNCHANGED <<attempt, unheard>>
  /\ UNCHANGED <<tokens, refreshed, rejected>>

(* The request is lost, or the server is busy and says so in JSON. *)
Unavailable ==
  /\ Wrong("network") \/ Wrong("busy")
  /\ NextTry
  /\ UNCHANGED <<tokens, refreshed, accepted, unheard, rejected>>

(* Fault: a refusal is retried. *)
RefusedRetried ==
  /\ Wrong("refused") \/ Wrong("garbled")
  /\ NextTry
  /\ UNCHANGED <<tokens, refreshed, accepted, unheard, rejected>>

(* No permission, or an answer that is not JSON, which ends the call       *)
(* whatever its status is.                                                 *)
Refused ==
  /\ Wrong("refused") \/ Wrong("garbled")
  /\ step' = "failed"
  /\ UNCHANGED <<tokens, refreshed, attempt, accepted, unheard, rejected>>

(* The token is rejected: one renewal, the second rejection is final. *)
Rejected ==
  /\ token = "revoked"
  /\ rejected' = rejected + 1
  /\ Wrong("rejected")
  /\ IF refreshed THEN step' = "failed" /\ UNCHANGED cached
     ELSE cached' = "none" /\ step' = "renew"
  /\ UNCHANGED <<token, fresh, refreshed, attempt, accepted, unheard>>

Post ==
  /\ step = "post"
  /\ posts' = posts + 1
  /\ Accepted \/ Unavailable \/ Refused \/ Rejected

(* The client's own clock, and the server taking its tokens back. *)
Expire ==
  /\ fresh
  /\ fresh' = FALSE
  /\ UNCHANGED <<step, token, cached, attempt, refreshed, callHistory>>

Revoke ==
  /\ "valid" \in {token, cached}
  /\ token' = IF token = "valid" THEN "revoked" ELSE token
  /\ cached' = IF cached = "valid" THEN "revoked" ELSE cached
  /\ UNCHANGED <<step, fresh, attempt, refreshed, callHistory>>

FNext == SendText \/ FirstToken \/ Renew \/ Post \/ Expire \/ Revoke

----------------------------------------------------------------------------
(* One call delivers the message more than once only for answers that were *)
(* lost: any other answer to a message that was taken ends the call        *)
(* (feishu.py:72-111).                                                     *)
DuplicatesAreUnheard == accepted <= unheard + 1

(* The last error is one a retry may help: a message or a renewal that was *)
(* lost, a message the server was too busy for, a token rejected once.     *)
Transient ==
  \/ wrong.kind = "network" /\ wrong.of \in {"post", "renew"}
  \/ wrong.kind = "busy" /\ wrong.of = "post"
  \/ wrong.kind = "rejected" /\ rejected = 1

(* A call that reports success delivered the message; one that fails with  *)
(* an error a retry may help has posted as often as it may; and after an   *)
(* error that no retry helps the call goes on with nothing                 *)
(* (feishu.py:72-114).  The first token and the server's own errors at a   *)
(* renewal are not Transient: the code ends the call there (feishu.py:69,  *)
(* 134-135), against README.md:257.                                        *)
RetriesWhatIsTransient ==
  /\ step = "sent" => accepted > 0
  /\ step = "failed" /\ Transient => posts = Tries
  /\ InCall => wrong.kind \notin {"garbled", "refused"}
  /\ posts <= Tries
=============================================================================
