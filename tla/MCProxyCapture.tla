--------------------------- MODULE MCProxyCapture ---------------------------
(* Model values for checking ProxyCapture with TLC.                        *)
EXTENDS ProxyCapture

CONSTANTS r1, r2

=============================================================================
