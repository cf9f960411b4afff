---------------------------- MODULE MCInspector ----------------------------
(* The instance of Inspector that TLC checks: see Inspector.cfg. *)
EXTENDS Inspector

Message(is, reply, audit) ==
    [is |-> is, reply |-> reply, audit |-> audit, on |-> is = "request"]
Request == Message("request", TRUE, TRUE)

\* Three messages fill the queue, the worker and the client's buffer; the rules are
\* those of requests, of which two meet.
MCStreams ==
    {<<Message("response", TRUE, TRUE), Message("response", TRUE, FALSE),
       Message("response", TRUE, FALSE)>>,
     <<Request, Request>>,
     <<Message("malformed", TRUE, FALSE), Request, Message("response", FALSE, TRUE)>>,
     <<Message("version", TRUE, TRUE), Message("frame", TRUE, TRUE)>>}

MCRules ==
    {[on |-> "event", net |-> TRUE, at |-> 100], [on |-> "overload", net |-> FALSE, at |-> 50]}
=============================================================================
