----------------------------- MODULE MCHTTPServer -----------------------------
(* Small instances of HTTPServer for TLC.                                  *)
EXTENDS HTTPServer
================================================================================
