---------------------------- MODULE MCBypassSync ----------------------------
\* BypassSync with two rules that share a needle ("*.a.com" and "a.com") and one
\* of its own; two request threads of the web server and the interceptor's loop.
EXTENDS BypassSync, TLC

CONSTANTS r1, r2, r3, n1, n2, t1, t2, loop

MCNeedleOf == (r1 :> n1) @@ (r2 :> n1) @@ (r3 :> n2)
MCHome == (t1 :> Web) @@ (t2 :> Web) @@ (loop :> Ssl)
=============================================================================
