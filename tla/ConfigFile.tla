----------------------------- MODULE ConfigFile -----------------------------
(***************************************************************************)
(* ProcessConfig (pkg/config/process.go) and the connection it fetches a   *)
(* remote configuration over (pkg/remote/get.go).                          *)
(*                                                                         *)
(* The documents that follow from a configuration file are numbered: 1 is  *)
(* the file, i + 1 what the server answers that the remote spec of i names *)
(* and what the encrypted spec of i holds.  Only the kind of a document is *)
(* kept, and that its spec, read as one of another kind, is empty: the     *)
(* three kinds have no key in common.                                      *)
(***************************************************************************)
EXTENDS Naturals, Sequences

CONSTANT Chains   \* the kinds of the documents, in order, for each file there may be

Kinds == {"local", "remote", "encrypted", "other"}

ASSUME ChainsAssumption == Chains \subseteq Seq(Kinds)

VARIABLES
  chain,     \* the documents of this run; none without a configuration file
  reading,   \* "closed", "open", "read" or "refused"
  conf,      \* the document whose kind is looked at next
  text,      \* the document specBytes was marshalled from
  keys,      \* the documents whose credentials were saved
  odd,       \* whether the number of fetches is odd, which tells one from the next
  effective  \* the document that specBytes was taken to configure the run; 0: none

configVars == <<chain, reading, conf, text, keys, odd, effective>>

ConfigInit ==
  /\ chain \in Chains
  /\ reading = "closed"
  /\ conf = 1
  /\ text = 1
  /\ keys = {}
  /\ odd = FALSE
  /\ effective = 0

Refuse ==
  /\ reading' = "refused"
  /\ UNCHANGED <<chain, conf, text, keys, odd, effective>>

\* The file cannot be opened or decoded, or its version is not known.
OpenFails == reading = "closed" /\ Len(chain) > 0 /\ Refuse

\* Decode and marshal the spec, before the loop.
Open ==
  /\ reading = "closed"
  /\ Len(chain) > 0
  /\ reading' = "open"
  /\ UNCHANGED <<chain, conf, text, keys, odd, effective>>

Dispatch(kind) == reading = "open" /\ chain[conf] = kind

\* case api.Local
ReadLocal ==
  /\ Dispatch("local")
  /\ effective' = text
  /\ reading' = "read"
  /\ UNCHANGED <<chain, conf, text, keys, odd>>

\* What a server shows: a chain the system's pool verifies, a fingerprint of the list,
\* and whether its certificate is in date, for this host and for signatures.
Peers == [known : BOOLEAN, listed : BOOLEAN, dated : BOOLEAN, named : BOOLEAN, signing : BOOLEAN]

\* VerifyPeerCertificate and validateCert
Trusted(peer) == peer.known \/ (peer.listed /\ peer.dated /\ peer.named /\ peer.signing)

\* mutant: a server that is not trusted is asked again
AsksAgain ==
  /\ Dispatch("remote")
  /\ odd' = ~odd
  /\ UNCHANGED <<chain, reading, conf, text, keys, effective>>

\* getRemoteConfig answers an error: the fields are not those of a remote spec, the
\* fingerprints or the credentials have no valid form, the server is not trusted, or its
\* answer is no configuration.
FetchFails ==
  /\ Dispatch("remote")
  /\ \/ chain[text] # "remote"
     \/ {peer \in Peers : ~Trusted(peer)} # {}
     \/ text = Len(chain)
  /\ Refuse

\* conf is replaced by the answer; specBytes stays what it was.
Fetch ==
  /\ Dispatch("remote")
  /\ chain[text] = "remote"
  /\ {peer \in Peers : Trusted(peer)} # {}
  /\ text < Len(chain)
  /\ conf' = text + 1
  /\ keys' = keys \cup {text}
  /\ odd' = ~odd
  /\ UNCHANGED <<chain, reading, text, effective>>

\* decryptConfig answers an error: no saved key is the recipient's, or the data does not
\* open with it.
DecryptFails == Dispatch("encrypted") /\ Refuse

\* A saved key that is the recipient's opens the document within; without one, and with
\* fields that are not those of an encrypted spec, an error is answered.
Decrypt ==
  /\ Dispatch("encrypted")
  /\ IF chain[text] = "encrypted" /\ keys # {} /\ text < Len(chain)
       THEN conf' = text + 1 /\ UNCHANGED <<chain, reading, text, keys, odd, effective>>
       ELSE Refuse

UnknownKind == Dispatch("other") /\ Refuse

Process ==
  OpenFails \/ Open \/ ReadLocal \/ FetchFails \/ Fetch \/ DecryptFails \/ Decrypt \/ UnknownKind

\* The settings of the file, which its last document holds, configure the run: the others
\* have no key that a local spec has.
FileCounts == effective > 0 /\ chain[effective] = "local"

---------------------------------------------------------------------------
(* What is said of it. *)

\* "Continues to process remotes until it gets a final valid ConfigSpec" (process.go:27),
\* "only the final one will be used" (docs/configuration.md:202): a configuration is the
\* one of the last document.
UsesFinal == reading = "read" => effective = Len(chain)
=============================================================================
