------------------------------ MODULE Digests ------------------------------
(***************************************************************************)
(* Content digests (canonical.py) and signatures (crypto.py), by what they *)
(* tell apart.                                                             *)
(***************************************************************************)
EXTENDS Functions

\* SHA-256 of the canonical JSON of x: equal exactly when the canonical
\* contents are equal, and never equal to what was hashed.
Digest(x) == [sha256 |-> x]

\* SHA-256 of raw bytes, which is not the digest of a canonical value.
BytesDigest(b) == [sha256_bytes |-> b]

\* Ed25519: only the principal's key yields this value for this digest.
Sign(principal, d) == [key |-> principal, over |-> d]

Verify(principal, d, signature) == signature = Sign(principal, d)

\* The fields a signature covers: all but the signature's own.
Signable(rec) == Restrict(rec, DOMAIN rec \ {"signature", "signed_digest"})

\* What a principal who (re)signs a record makes of it.
Signed(rec, principal) ==
    LET digest == Digest(Signable(rec)) IN
    [x \in DOMAIN rec \cup {"signature", "signed_digest"} |->
        CASE x = "signed_digest" -> digest
          [] x = "signature" -> Sign(principal, digest)
          [] OTHER -> rec[x]]

=============================================================================
