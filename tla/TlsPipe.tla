------------------------------ MODULE TlsPipe ------------------------------
(***************************************************************************)
(* tls_pipe of tls_pipe.cpp: who owns the fiber_pipe, the BIO around it    *)
(* and the SSL around that while the constructor hands them on and any     *)
(* step may fail, and how a failure of the fiber_pipe, met inside a        *)
(* callback that OpenSSL made, becomes the exception of the tls_pipe.      *)
(*                                                                         *)
(* OpenSSL itself is not modelled: SSL_do_handshake, SSL_read, SSL_write   *)
(* and SSL_shutdown call fp_read and fp_write some times and then succeed, *)
(* or fail; they fail if a callback did, except SSL_shutdown, whose result *)
(* is ignored.                                                             *)
(***************************************************************************)
EXTENDS Naturals, FiniteSets

CONSTANT TpMaxOps   \* most calls of an open pipe

VARIABLES
    tpPc,       \* "new", "bio", "ssl", "handshake", "verify", "open", "gone"
    tpOp,       \* the call under way: "none", "read", "write", "shutdown"
    tpFailed,   \* a callback of the SSL call under way returned -1
    tpPipe,     \* owner of the fiber_pipe: "caller", "bio", "none"
    tpBio,      \* owners of the BIO: a subset of {"auto_bio", "ssl"}
    tpBioFrees, \* how often it was freed
    tpSsl,      \* owner of the SSL: "none", "auto_ssl", "tls_pipe"
    tpErrs,     \* hit_fiber_io_error_ and hit_fiber_io_timeout_error_, as a set
    tpMet,      \* the failures the fiber_pipe has really met
    tpThrown,   \* "none" or the last exception: "io", "timeout", "ssl"
    tpOps       \* calls made

tpOwned == <<tpPipe, tpBio, tpBioFrees, tpSsl>>
tpVars == <<tpPc, tpOp, tpFailed, tpOwned, tpErrs, tpMet, tpThrown, tpOps>>

TpInit ==
    /\ tpPc = "new" /\ tpOp = "none" /\ tpFailed = FALSE
    /\ tpPipe = "caller" /\ tpBio = {} /\ tpBioFrees = 0 /\ tpSsl = "none"
    /\ tpErrs = {} /\ tpMet = {} /\ tpThrown = "none" /\ tpOps = 0

(* The locals of the constructor, or the tls_pipe, go away: SSL_free frees *)
(* the BIO it holds, auto_bio the one it still holds, fp_free the pipe.    *)
FreeAll ==
    /\ tpSsl' = "none" /\ tpBio' = {}
    /\ tpBioFrees' = tpBioFrees + Cardinality(tpBio)
    /\ tpPipe' = IF tpBio = {} THEN tpPipe ELSE "none"

-----------------------------------------------------------------------------
(* BIO_new_fp moves the pipe into the BIO, if there is a BIO.              *)
BioNewFp ==
    /\ tpPc = "new"
    /\ \/ /\ tpPc' = "bio" /\ tpPipe' = "bio" /\ tpBio' = {"auto_bio"}
          /\ UNCHANGED <<tpBioFrees, tpSsl, tpThrown>>
       \/ /\ tpPc' = "gone" /\ tpThrown' = "ssl" /\ FreeAll
    /\ UNCHANGED <<tpOp, tpFailed, tpErrs, tpMet, tpOps>>

SslNew ==
    /\ tpPc = "bio"
    /\ \/ /\ tpPc' = "ssl" /\ tpSsl' = "auto_ssl"
          /\ UNCHANGED <<tpPipe, tpBio, tpBioFrees, tpThrown>>
       \/ /\ tpPc' = "gone" /\ tpThrown' = "ssl" /\ FreeAll
    /\ UNCHANGED <<tpOp, tpFailed, tpErrs, tpMet, tpOps>>

(* Mutant: fp_bio.release() is missing.                                    *)
SetBioUnreleased ==
    /\ tpPc = "ssl" /\ tpPc' = "handshake" /\ tpBio' = {"ssl", "auto_bio"}
    /\ UNCHANGED <<tpOp, tpFailed, tpPipe, tpBioFrees, tpSsl, tpErrs, tpMet, tpThrown, tpOps>>

(* SSL_set_bio, and fp_bio.release().                                      *)
SetBio ==
    /\ tpPc = "ssl" /\ tpPc' = "handshake" /\ tpBio' = {"ssl"}
    /\ UNCHANGED <<tpOp, tpFailed, tpPipe, tpBioFrees, tpSsl, tpErrs, tpMet, tpThrown, tpOps>>

(* A callback of the SSL call under way.                                   *)
Calling == ~tpFailed /\ (tpPc = "handshake" \/ tpOp # "none")

FpFails(err) ==
    /\ tpFailed' = TRUE /\ tpMet' = tpMet \cup {err} /\ tpErrs' = tpErrs \cup {err}
    /\ UNCHANGED <<tpPc, tpOp, tpOwned, tpThrown, tpOps>>
FpRead(err) ==
    /\ Calling /\ tpOp \in {"none", "read"} /\ FpFails(err)
(* Mutant: fp_write does not note its error.                               *)
FpWriteUnnoted(err) ==
    /\ Calling /\ tpFailed' = TRUE /\ tpMet' = tpMet \cup {err}
    /\ UNCHANGED <<tpPc, tpOp, tpOwned, tpErrs, tpThrown, tpOps>>
FpWrite(err) ==
    /\ Calling /\ FpFails(err)

(* throw_ssl_error_ and throw_ssl_io_error_.                               *)
ThrowSslError == IF "io" \in tpErrs THEN "io"
                 ELSE IF "timeout" \in tpErrs THEN "timeout" ELSE "ssl"

Handshake ==
    /\ tpPc = "handshake" /\ tpFailed' = FALSE
    /\ \/ /\ ~tpFailed /\ tpPc' = "verify" /\ UNCHANGED <<tpOwned, tpThrown>>
       \/ /\ tpPc' = "gone" /\ tpThrown' = ThrowSslError /\ FreeAll
    /\ UNCHANGED <<tpOp, tpErrs, tpMet, tpOps>>

(* The peer's certificate, its host name and the result of the verification*)
(* are looked at if the caller asked for it; then the tls_pipe takes the   *)
(* SSL.                                                                    *)
VerifyPeer ==
    /\ tpPc = "verify"
    /\ \/ /\ tpPc' = "open" /\ tpSsl' = "tls_pipe"
          /\ UNCHANGED <<tpPipe, tpBio, tpBioFrees, tpThrown>>
       \/ /\ tpPc' = "gone" /\ tpThrown' = ThrowSslError /\ FreeAll
    /\ UNCHANGED <<tpOp, tpFailed, tpErrs, tpMet, tpOps>>

(* A call of the owner: read, write or shutdown.                           *)
TpCall(op) ==
    /\ tpPc = "open" /\ tpOp = "none" /\ tpOps < TpMaxOps
    /\ tpOp' = op /\ tpOps' = tpOps + 1 /\ tpThrown' = "none"
    /\ UNCHANGED <<tpPc, tpFailed, tpOwned, tpErrs, tpMet>>

TpReturn ==
    /\ tpOp # "none" /\ tpOp' = "none" /\ tpFailed' = FALSE
    /\ \/ (~tpFailed \/ tpOp = "shutdown") /\ tpThrown' = "none"
       \/ tpOp # "shutdown" /\ tpThrown' = ThrowSslError
    /\ UNCHANGED <<tpPc, tpOwned, tpErrs, tpMet, tpOps>>

(* The destructor: a quiet shutdown, which writes nothing, and SSL_free.   *)
TpDestroy ==
    /\ tpPc = "open" /\ tpOp = "none" /\ tpPc' = "gone" /\ FreeAll
    /\ UNCHANGED <<tpOp, tpFailed, tpErrs, tpMet, tpThrown, tpOps>>

TpNext ==
    \/ BioNewFp \/ SslNew \/ SetBio \/ Handshake \/ VerifyPeer \/ TpReturn \/ TpDestroy
    \/ \E err \in {"io", "timeout"} : FpRead(err) \/ FpWrite(err)
    \/ \E op \in {"read", "write", "shutdown"} : TpCall(op)

TpSpec == TpInit /\ [][TpNext]_tpVars

-----------------------------------------------------------------------------
(* Whichever step fails, the BIO is freed once and the fiber_pipe with it, *)
(* or the caller still has the pipe because there never was a BIO; and an  *)
(* open tls_pipe, whose fp_ points at the fiber_pipe, has it alive.        *)
(* An exception is the one the fiber_pipe met: the owner is told of a      *)
(* failed tls, and not of the failed or timed out socket, only when the    *)
(* socket never failed.                                                    *)
TlsOwned ==
    /\ tpBioFrees <= 1
    /\ tpPc = "gone" => tpSsl = "none" /\ (tpPipe = "none" \/ tpBioFrees = 0)
    /\ tpPc = "open" => tpPipe = "bio" /\ tpBio = {"ssl"} /\ tpSsl = "tls_pipe"
    /\ tpThrown \in {"io", "timeout"} => tpThrown \in tpMet
    /\ tpThrown = "ssl" => tpMet = {}
=============================================================================
