---------------------------- MODULE MCDtpLogger -----------------------------
(* Small instances of DtpLogger: at most MaxWritten messages.  The bound    *)
(* only disables dtp_logger_write_cnt, for which no fairness is assumed.    *)
EXTENDS DtpLogger

CONSTANT MaxWritten

Bounded == written <= MaxWritten
=============================================================================
