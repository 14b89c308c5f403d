--------------------------- MODULE MCFtpTransfer ---------------------------
(* Uploads with the retry limit of the code and three jobs: one that ends,   *)
(* one behind it, and one that may come in at any moment.                    *)
EXTENDS FtpTransfer
=============================================================================
