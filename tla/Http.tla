-------------------------------- MODULE Http --------------------------------
(***************************************************************************)
(* What one HTTP request of the client comes to.  A Reply is what the wire *)
(* and the server do with the request; DoJson and GetStatus are what the   *)
(* two request helpers of client.py make of it for their callers.          *)
(***************************************************************************)

\* Statuses the callers tell apart; "4xx" is any other 4xx, "5xx" any that is neither
\* 2xx nor 4xx (a redirect that urllib does not follow too; one that it does is part
\* of what the wire does).
Refusals == {"404", "409", "4xx"}
Statuses == Refusals \cup {"5xx"}

\* 2xx answers: a JSON object, JSON that is no object, no body or JSON null, a body
\* that is not JSON, a body that is not UTF-8, a body cut off before its length.
Successes == {"object", "odd", "empty", "notjson", "notutf8", "torn"}

\* "unread": a status that is no 2xx, with a body that the handler fails to read (torn,
\* timed out).  "unsent": connecting or writing failed, nothing was served.  "lost":
\* the request went out and no status line came back (timeout, reset, close).
Replies == Statuses \cup Successes \cup {"unread", "unsent", "lost"}

\* What the caller of a helper gets: a value, None, an APIError named by its
\* status, a ClientError, or an exception the helper does not wrap.
DoJson(r) ==
  CASE r \in {"object", "odd"}        -> r
    [] r = "empty"                    -> "none"
    [] r \in Statuses                 -> r
    [] r \in {"notjson", "unsent"}    -> "ClientError"
    [] r \in {"notutf8", "torn", "unread", "lost"} -> "raw"

\* _get_status never reads the body of a 2xx.
GetStatus(r) ==
  CASE r \in Successes          -> "ok"
    [] r \in Statuses           -> r
    [] r = "unsent"             -> "ClientError"
    [] r \in {"unread", "lost"} -> "raw"

\* What the server did with a request that changes its state (external): a 2xx
\* means done, a refusal or nothing sent means not done, the rest may be either (an
\* unread status too: it may be any).
Done(r)    == r \in Successes
MayDone(r) == r \notin Refusals \cup {"unsent"}
=============================================================================
