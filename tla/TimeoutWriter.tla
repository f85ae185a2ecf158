---------------------------- MODULE TimeoutWriter ----------------------------
(***************************************************************************)
(* The timeout middleware (pkg/httpmiddleware/timeout.go) around one        *)
(* request: the middleware waits in its select while the handler writes     *)
(* through a timeoutWriter from a goroutine of its own, which the           *)
(* middleware may leave behind.                                             *)
(*                                                                          *)
(* Two kinds of handler are put behind it (api/): a json handler writes a   *)
(* status and a body when its service has returned (writeJSON), an sse      *)
(* handler writes and flushes an event for each chunk and one at the end    *)
(* (writeSSE); one that refuses its request answers like a json handler.    *)
(* The methods of the writer hold tw.mu and are one action each.  Contents, *)
(* flushes and the header map are left out: a flush always follows a write  *)
(* here, so it sends nothing of its own.                                    *)
(***************************************************************************)
EXTENDS Naturals

CONSTANTS
  Kinds,      \* the kinds of handler, of {"json", "sse"}
  MaxChunks   \* bound: chunks an sse handler writes

ASSUME WriterAssumption == Kinds \subseteq {"json", "sse"} /\ MaxChunks \in Nat

VARIABLES
  kind,         \* the handler of this request
  ctxDone,      \* the deadline has passed or the client has gone
  middleware,   \* select; leaving: after tw.timeout(); done, cut: returned
  handler,      \* where the handler is
  chunks,       \* events written so far
  wroteHeader,  \* tw.wroteHeader
  timedOut,     \* tw.timedOut
  refused,      \* a Write of the handler returned http.ErrHandlerTimeout
  status,       \* whose status line the client gets
  authors       \* whose bytes are in the body the client gets

writer   == <<wroteHeader, timedOut>>
response == <<status, authors>>
vars == <<kind, ctxDone, middleware, handler, chunks, refused, writer, response>>

Init ==
  /\ kind \in Kinds /\ ctxDone = FALSE
  /\ middleware = "select" /\ handler = "work" /\ chunks = 0
  /\ wroteHeader = FALSE /\ timedOut = FALSE /\ refused = FALSE
  /\ status = "none" /\ authors = {}

Returned == middleware \in {"done", "cut"}

-----------------------------------------------------------------------------
(* The ResponseWriter of the server: the first status line counts, a body   *)
(* without one is a 200, and what comes after the middleware has returned   *)
(* does not reach the client.                                               *)

SendStatus(who) ==
  status' = IF ~Returned /\ status = "none" THEN who ELSE status
SendBody(who) ==
  /\ SendStatus(who)
  /\ authors' = IF Returned THEN authors ELSE authors \cup {who}

-----------------------------------------------------------------------------
(* timeoutWriter.                                                           *)

WriteHeader ==
  \/ timedOut /\ UNCHANGED <<writer, response>>
  \/ /\ ~timedOut
     /\ wroteHeader' = TRUE /\ SendStatus("handler")
     /\ UNCHANGED <<timedOut, authors>>

\* Write succeeds, or returns http.ErrHandlerTimeout.
WriteOk ==
  /\ ~timedOut
  /\ wroteHeader' = TRUE /\ SendBody("handler")
  /\ UNCHANGED <<timedOut, refused>>
WriteRefused ==
  /\ timedOut
  /\ refused' = TRUE /\ UNCHANGED <<writer, response>>

\* tw.timeout().
\* (Mutants: it notes the timeout before it looks at wroteHeader; it does not
\* look.)
MutTimeoutNotedFirst ==
  /\ timedOut' = TRUE
  /\ \/ wroteHeader /\ UNCHANGED <<wroteHeader, response>>
     \/ ~wroteHeader /\ SendBody("timeout") /\ UNCHANGED wroteHeader
MutTimeoutUnchecked ==
  timedOut' = TRUE /\ SendBody("timeout") /\ UNCHANGED wroteHeader
Timeout ==
  \/ wroteHeader /\ UNCHANGED <<writer, response>>
  \/ ~wroteHeader /\ timedOut' = TRUE /\ SendBody("timeout") /\ UNCHANGED wroteHeader

-----------------------------------------------------------------------------
(* The middleware.                                                          *)

CtxEnd ==
  /\ ~ctxDone /\ ctxDone' = TRUE
  /\ UNCHANGED <<kind, middleware, handler, chunks, refused, writer, response>>

HandlerDone ==
  /\ middleware = "select" /\ handler = "returned"
  /\ middleware' = "done"
  /\ UNCHANGED <<kind, ctxDone, handler, chunks, refused, writer, response>>

\* (Mutant: with the response under way it waits for the handler.)
MutCtxSeen ==
  /\ middleware = "select" /\ ctxDone /\ ~wroteHeader
  /\ Timeout /\ middleware' = "leaving"
  /\ UNCHANGED <<kind, ctxDone, handler, chunks, refused>>
CtxSeen ==
  /\ middleware = "select" /\ ctxDone
  /\ Timeout /\ middleware' = "leaving"
  /\ UNCHANGED <<kind, ctxDone, handler, chunks, refused>>

Leave ==
  /\ middleware = "leaving" /\ middleware' = "cut"
  /\ UNCHANGED <<kind, ctxDone, handler, chunks, refused, writer, response>>

-----------------------------------------------------------------------------
(* The handler goroutine.                                                   *)

Goto(where) == handler' = where /\ UNCHANGED <<kind, ctxDone, middleware>>

\* The service returns, with an answer or an error; with the context or not.
ServiceReturns ==
  /\ handler = "work"
  /\ Goto(IF kind = "json" THEN "header" ELSE "last")
  /\ UNCHANGED <<chunks, refused, writer, response>>

\* onChunk of an sse handler.  A refused chunk is an error to the service.
Chunk ==
  /\ handler = "work" /\ kind = "sse" /\ chunks < MaxChunks
  /\ WriteOk \/ WriteRefused
  /\ chunks' = chunks + 1 /\ Goto("work")

LastEvent ==
  /\ handler = "last"
  /\ WriteOk \/ WriteRefused
  /\ Goto("returned") /\ UNCHANGED chunks

\* writeJSON; a refused body makes it call http.Error, whose status and body
\* go the same way.
JsonHeader ==
  /\ handler = "header" /\ WriteHeader
  /\ Goto("body") /\ UNCHANGED <<chunks, refused>>

JsonBody ==
  /\ handler = "body"
  /\ \/ WriteOk /\ Goto("returned")
     \/ WriteRefused /\ Goto("httpError")
  /\ UNCHANGED chunks

HttpError ==
  /\ handler = "httpError" /\ WriteRefused
  /\ Goto("returned") /\ UNCHANGED chunks

-----------------------------------------------------------------------------
Middleware == HandlerDone \/ CtxSeen \/ Leave
Handler == ServiceReturns \/ Chunk \/ LastEvent \/ JsonHeader \/ JsonBody
           \/ HttpError
Next == CtxEnd \/ Middleware \/ Handler

Spec == Init /\ [][Next]_vars

-----------------------------------------------------------------------------
(* Properties.                                                              *)

\* Where the request is, and the writer with what the client gets.
RequestType ==
  /\ kind \in Kinds /\ chunks \in 0..MaxChunks /\ ctxDone \in BOOLEAN
  /\ middleware \in {"select", "leaving", "done", "cut"}
  /\ handler \in {"work", "last", "header", "body", "httpError", "returned"}
  /\ handler = "last" => kind = "sse"
  /\ handler \in {"header", "body", "httpError"} => kind = "json"
WriterType ==
  /\ wroteHeader \in BOOLEAN /\ timedOut \in BOOLEAN /\ refused \in BOOLEAN
  /\ status \in {"none", "handler", "timeout"} /\ authors \subseteq {"handler", "timeout"}

\* The variables have their types, and a handler is where its kind can be: a
\* stream is never continued with writeJSON.
TypeOK == RequestType /\ WriterType

\* The client gets the handler's response or the timeout's, never a mixture,
\* however the two interleave (timeoutWriter.Write, timeoutWriter.timeout).
OneAuthor == authors \subseteq {status}

\* A handler is told ErrHandlerTimeout only when the client gets the 504: no
\* response that was begun is cut off by a refusal (timeoutWriter.timeout).
RefusedOnlyAfter504 == refused => status = "timeout" /\ authors = {"timeout"}
=============================================================================
