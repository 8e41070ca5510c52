-------------------------------- MODULE Leads --------------------------------
(***************************************************************************)
(* Demo requests: the form (components/marketing/DemoRequestForm.tsx), the *)
(* public route with its honeypot and its in-process rate limit            *)
(* (app/api/demo-requests/route.ts, server/security/controls.ts) and the   *)
(* INSERT (server/leads/service.ts).  Visitors behind one address share a  *)
(* bucket; requests without an address share another.  The site runs in    *)
(* several processes, each with a store of its own.                        *)
(***************************************************************************)
EXTENDS Naturals, FiniteSets, NoValue
CONSTANTS
  Visit,       \* submissions of the form
  Bucket,      \* minimised addresses, and "unknown"
  Server,      \* processes of the site
  RateLimit    \* RATE_RULES["public.demo-requests"].limit

ASSUME RateAssumption == RateLimit \in Nat \ {0}

VARIABLES
  forms,       \* what the form of each visit shows
  posts,       \* each visit's request: what was filled in and how far it is, or None
  window,      \* MemoryRateLimitStore.hits: the requests counted in the current window
  leads        \* rows of demo_requests: the visits that left one

leadVars == <<forms, posts, window, leads>>

Filled == {"complete", "no consent", "invalid", "honeypot", "not JSON"}
Post == [filled : Filled, bucket : Bucket, server : Server,
         at : {"sent", "admitted", "stored", "refused", "pretended", "failed"}]
ASSUME NoneIsNoPost == None \notin Post

LeadsTypeOK ==
  /\ forms \in [Visit -> {"idle", "sending", "sent", "error"}]
  /\ posts \in [Visit -> Post \cup {None}]
  /\ window \in [Server \X Bucket -> SUBSET Visit]
  /\ leads \subseteq Visit

LeadsInit ==
  /\ forms = [v \in Visit |-> "idle"]
  /\ posts = [v \in Visit |-> None]
  /\ window = [sb \in Server \X Bucket |-> {}]
  /\ leads = {}

\* onSubmit.
SubmitForm(v, filled, bucket, server) ==
  /\ posts[v] = None
  /\ forms' = [forms EXCEPT ![v] = "sending"]
  /\ posts' = [posts EXCEPT ![v] = [filled |-> filled, bucket |-> bucket, server |-> server, at |-> "sent"]]
  /\ UNCHANGED <<window, leads>>

Becomes(v, stage) == posts' = [posts EXCEPT ![v].at = stage]

\* The body is parsed and the honeypot looked at before anything is counted.
ParseBody(v) ==
  /\ posts[v] # None /\ posts[v].at = "sent"
  /\ \/ posts[v].filled = "not JSON" /\ Becomes(v, "refused")
     \/ posts[v].filled = "honeypot" /\ Becomes(v, "pretended")
  /\ UNCHANGED <<forms, window, leads>>

\* Mutant: the request itself is not counted.
EnforceRateLimitBefore(v) ==
  LET sb == <<posts[v].server, posts[v].bucket>> IN
  /\ posts[v] # None /\ posts[v].at = "sent"
  /\ posts[v].filled \notin {"not JSON", "honeypot"}
  /\ window' = [window EXCEPT ![sb] = @ \cup {v}]
  /\ Becomes(v, IF Cardinality(window[sb]) > RateLimit THEN "refused" ELSE "admitted")
  /\ UNCHANGED <<forms, leads>>

\* enforceRateLimit: the hit counts, also when it is refused.
EnforceRateLimit(v) ==
  LET sb == <<posts[v].server, posts[v].bucket>>
      counted == window[sb] \cup {v}
  IN /\ posts[v] # None /\ posts[v].at = "sent"
     /\ posts[v].filled \notin {"not JSON", "honeypot"}
     /\ window' = [window EXCEPT ![sb] = counted]
     /\ Becomes(v, IF Cardinality(counted) > RateLimit THEN "refused" ELSE "admitted")
     /\ UNCHANGED <<forms, leads>>

\* createDemoRequest: validation and consent, then the INSERT, which may fail (or be done
\* although its connection was lost).
CreateDemoRequest(v) ==
  /\ posts[v] # None /\ posts[v].at = "admitted"
  /\ \/ posts[v].filled # "complete" /\ Becomes(v, "refused") /\ UNCHANGED leads
     \/ posts[v].filled = "complete" /\ Becomes(v, "stored") /\ leads' = leads \cup {v}
     \/ /\ posts[v].filled = "complete" /\ Becomes(v, "failed")
        /\ leads' \in {leads, leads \cup {v}}
  /\ UNCHANGED <<forms, window>>

\* The answer reaches the form, or the connection is lost at any point.
ShowAnswer(v) ==
  /\ posts[v] # None /\ forms[v] = "sending"
  /\ \/ posts[v].at \in {"stored", "pretended"} /\ forms' = [forms EXCEPT ![v] = "sent"]
     \/ forms' = [forms EXCEPT ![v] = "error"]
  /\ UNCHANGED <<posts, window, leads>>

HitAges(sb, v) ==
  /\ v \in window[sb]
  /\ window' = [window EXCEPT ![sb] = @ \ {v}]
  /\ UNCHANGED <<forms, posts, leads>>

ServerRestarts(s) ==
  /\ window' = [sb \in Server \X Bucket |-> IF sb[1] = s THEN {} ELSE window[sb]]
  /\ UNCHANGED <<forms, posts, leads>>

LeadsNext ==
  \/ \E v \in Visit : ParseBody(v) \/ EnforceRateLimit(v) \/ CreateDemoRequest(v) \/ ShowAnswer(v)
  \/ \E v \in Visit, filled \in Filled, b \in Bucket, s \in Server : SubmitForm(v, filled, b, s)
  \/ \E sb \in Server \X Bucket : \E v \in Visit : HitAges(sb, v)
  \/ \E s \in Server : ServerRestarts(s)

LeadsSpec == LeadsInit /\ [][LeadsNext]_leadVars

-----------------------------------------------------------------------------
\* A form that says "sent" has left a row with consent, or had its hidden field filled; details
\* without consent are never stored; and each process stores at most RateLimit of the requests
\* one address has made in the current window, refused ones counting against it.
LeadsAreHonest ==
  /\ \A v \in Visit : forms[v] = "sent" => v \in leads \/ posts[v].filled = "honeypot"
  /\ \A v \in leads : posts[v].filled = "complete"
  /\ \A sb \in Server \X Bucket : Cardinality(window[sb] \cap leads) <= RateLimit
=============================================================================
