---------------------------- MODULE MCDtpModule -----------------------------
(* Small instances of DtpModule.                                            *)
EXTENDS DtpModule

\* Every method of the daemon, each alone: the FIFOs are independent.
OneMethod == {{m} : m \in Methods \ {"set_interval"}}
=============================================================================
