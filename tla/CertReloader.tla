----------------------------- MODULE CertReloader -----------------------------
(***************************************************************************)
(* The TLS certificate reloader (internal/server/tls.go) against a renewal *)
(* that rewrites the certificate and key files.  A file's content is the   *)
(* version it belongs to, or Torn while it is half written; every read of  *)
(* a file is a step of its own.  The tick may come at any time.            *)
(***************************************************************************)
EXTENDS Naturals

CONSTANTS
    Versions,   \* certificates issued, 1 first
    KeyOf,      \* [Versions -> Nat]: the key each was issued for
    Torn,       \* a half-written file
    Nothing     \* no pair loaded, no file read

ASSUME CertAssumption ==
    /\ Versions \subseteq Nat \ {0} /\ 1 \in Versions
    /\ KeyOf \in [Versions -> Nat \ {0}]
    /\ Torn \notin Nat /\ Nothing \notin Nat /\ Torn # Nothing

VARIABLES
    certFile, keyFile,   \* what is on disk
    renewal,             \* the version being written or last written
    reading,             \* the place in readStablePair
    attempt,
    before, key,         \* what this attempt has read
    cert,                \* the pair served: [cert, key] or Nothing
    lastHash,            \* the contents it was loaded from
    still                \* history: the files are as they were when this
                         \* attempt began

fileVars   == <<certFile, keyFile, renewal>>
readerVars == <<reading, attempt, before, key, cert, lastHash>>
certVars   == <<fileVars, readerVars, still>>

Attempts == 3            \* stablePairReadAttempts

CertContent == Versions \cup {Torn}
KeyContent  == {KeyOf[v] : v \in Versions} \cup {Torn}
Pair == [cert : CertContent, key : KeyContent]

CertInit ==
    /\ certFile = 1 /\ keyFile = KeyOf[1] /\ renewal = 1
    /\ reading = "cert" /\ attempt = 1
    /\ before = Nothing /\ key = Nothing
    /\ cert = Nothing /\ lastHash = Nothing
    /\ still = FALSE

-----------------------------------------------------------------------------
(* The renewal: the two files in either order, each truncated and then     *)
(* written, or both swapped at once by a symbolic link (Kubernetes).       *)

Written == certFile = renewal /\ keyFile = KeyOf[renewal]

Renew ==
    /\ Written /\ renewal + 1 \in Versions
    /\ renewal' = renewal + 1
    /\ \/ certFile' = Torn /\ UNCHANGED keyFile
       \/ keyFile' = Torn /\ UNCHANGED certFile
       \/ certFile' = renewal' /\ keyFile' = KeyOf[renewal']

WriteCert ==
    /\ certFile # renewal
    /\ certFile' = IF certFile = Torn THEN renewal ELSE Torn
    /\ UNCHANGED <<keyFile, renewal>>

WriteKey ==
    /\ keyFile # KeyOf[renewal]
    /\ keyFile' = IF keyFile = Torn THEN KeyOf[renewal] ELSE Torn
    /\ UNCHANGED <<certFile, renewal>>

RenewalStep ==
    /\ Renew \/ WriteCert \/ WriteKey
    /\ still' = FALSE
    /\ UNCHANGED readerVars

-----------------------------------------------------------------------------
(* reload                                                                  *)

Rest ==
    /\ reading' = "idle" /\ attempt' = 1
    /\ before' = Nothing /\ key' = Nothing
    /\ still' = FALSE

Tick ==
    /\ reading = "idle"
    /\ reading' = "cert"
    /\ UNCHANGED <<attempt, before, key, cert, lastHash, still>>

ReadCert ==
    /\ reading = "cert"
    /\ before' = certFile
    /\ reading' = "key"
    /\ still' = TRUE
    /\ UNCHANGED <<attempt, key, cert, lastHash>>

ReadKey ==
    /\ reading = "key"
    /\ key' = keyFile
    /\ reading' = "again"
    /\ UNCHANGED <<attempt, before, cert, lastHash, still>>

(* A file being replaced may not be there.                                 *)
ReadFails ==
    /\ ~Written /\ reading \in {"cert", "key", "again"}
    /\ Rest
    /\ UNCHANGED <<cert, lastHash>>

X509KeyPair(c, k) == c # Torn /\ k = KeyOf[c]

\* MUTANT: a pair once loaded is not looked at again.
LoadedOnce(c) == cert # Nothing

Unchanged(c) == cert # Nothing /\ lastHash = [cert |-> c, key |-> key]

Load(c) ==
    /\ Rest
    /\ IF Unchanged(c) \/ ~X509KeyPair(c, key)
       THEN UNCHANGED <<cert, lastHash>>
       ELSE /\ cert' = [cert |-> c, key |-> key]
            /\ lastHash' = [cert |-> c, key |-> key]

\* MUTANT: an attempt after the first takes the key of the first.
RetryKeepsKey ==
    /\ reading = "again"
    /\ IF certFile = before THEN Load(certFile)
       ELSE IF attempt < Attempts
       THEN /\ attempt' = attempt + 1
            /\ before' = certFile /\ still' = TRUE
            /\ UNCHANGED <<reading, key, cert, lastHash>>
       ELSE Rest /\ UNCHANGED <<cert, lastHash>>

(* The certificate again: a stable one is loaded, another one read anew.   *)
ReadAgain ==
    /\ reading = "again"
    /\ IF certFile = before THEN Load(certFile)
       ELSE IF attempt < Attempts
       THEN /\ attempt' = attempt + 1
            /\ reading' = "cert"
            /\ UNCHANGED <<before, key, cert, lastHash, still>>
       ELSE Rest /\ UNCHANGED <<cert, lastHash>>

ReloadStep == (ReadCert \/ ReadKey \/ ReadAgain \/ ReadFails) /\ UNCHANGED fileVars

-----------------------------------------------------------------------------
CertTypeOK ==
    /\ certFile \in CertContent /\ keyFile \in KeyContent /\ renewal \in Versions
    /\ reading \in {"idle", "cert", "key", "again"}
    /\ attempt \in 1..Attempts
    /\ before \in CertContent \cup {Nothing} /\ key \in KeyContent \cup {Nothing}
    /\ reading = "again" => before # Nothing /\ key # Nothing
    /\ cert \in Pair \cup {Nothing} /\ lastHash = cert
    /\ still \in BOOLEAN

(* A reload whose last attempt ran on a finished pair, without a write     *)
(* between its three reads, ends with that pair served, whatever the       *)
(* attempts before it had read and whatever was served or refused before   *)
(* (readStablePair, reload, tls.go:42-83; the pair converges within about  *)
(* one interval, docs/configuration.md:139-142).                           *)
SettledPairServed ==
    [][reading = "again" /\ reading' = "idle" /\ still /\ Written
           => cert' = [cert |-> certFile, key |-> keyFile]]_certVars
=============================================================================
