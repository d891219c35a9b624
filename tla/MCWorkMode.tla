----------------------------- MODULE MCWorkMode -----------------------------
(***************************************************************************)
(* Instances of WorkMode.  The files come in three uploads, such that some *)
(* of the station's modes have what they need and others lack one file.    *)
(***************************************************************************)
EXTENDS WorkMode

MCBatches == {{<<"LNS", k>> : k \in {"uri", "trust", "crt", "key"}},
              {<<"LNS", "token">>},
              {<<"CUPS", k>> : k \in {"uri", "trust"}}}
MCNoBatches == {{<<"LNS", "uri">>}}

=============================================================================
