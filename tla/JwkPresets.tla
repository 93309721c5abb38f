----------------------------- MODULE JwkPresets -----------------------------
(***************************************************************************)
(* The registries of internal/core that connect an algorithm name to what  *)
(* generates its keys, caches them, signs with them and verifies with      *)
(* them: tables looked up in five places, that have to agree.              *)
(***************************************************************************)

\* The algorithm names of RFC 7518 and RFC 8037, as jwa spells them.
Hmac  == {"HS256", "HS384", "HS512"}
Ecdsa == {"ES256", "ES384", "ES512"}
Rsa   == {"RS256", "RS384", "RS512", "PS256", "PS384", "PS512"}
Alg   == {"EdDSA"} \cup Ecdsa \cup Rsa \cup Hmac

\* The presets, each of them named after its algorithm.
JwkPresetsEcdsa == [alg \in Ecdsa |-> alg]
JwsPresetsEcdsa == [alg \in Ecdsa |-> alg]
JwkPresetsRsa   == [alg \in Rsa |-> alg]
JwsPresetsRsa   == [alg \in Rsa |-> alg]

\* The registry of JwkGen: the generator of an algorithm.
JwkGenerators == [alg \in {"EdDSA"} \cup Ecdsa \cup Rsa |->
                     IF alg = "EdDSA" THEN "Ed25519"
                     ELSE IF alg \in Ecdsa THEN "Es" ELSE "Rsa"]

\* The keys an algorithm's generator makes, at most one: none when the algorithm has
\* no generator, or the generator no preset.
Generated(alg) ==
    CASE alg \notin DOMAIN JwkGenerators -> {}
      [] alg \in DOMAIN JwkGenerators /\ JwkGenerators[alg] = "Ed25519" ->
            {[kty |-> "OKP", alg |-> "EdDSA"]}
      [] alg \in DOMAIN JwkGenerators /\ JwkGenerators[alg] = "Es" ->
            {[kty |-> "EC", alg |-> JwkPresetsEcdsa[a]] :
                a \in {alg} \cap DOMAIN JwkPresetsEcdsa}
      [] alg \in DOMAIN JwkGenerators /\ JwkGenerators[alg] = "Rsa" ->
            {[kty |-> "RSA", alg |-> JwkPresetsRsa[a]] :
                a \in {alg} \cap DOMAIN JwkPresetsRsa}

\* A switch whose RSA case stops at PKCS #1.
PrivateBucketPkcs(alg) ==
    CASE alg = "EdDSA"                      -> {"EdDSA"}
      [] alg \in Ecdsa                      -> {"ES"}
      [] alg \in {"RS256", "RS384", "RS512"} -> {"RSA"}
      [] OTHER                              -> {}

\* The bucket of sources NewJwkPrivateSource files a usage of this algorithm under,
\* if it knows the algorithm ...
PrivateBucket(alg) == CASE alg = "EdDSA" -> {"EdDSA"}
                        [] alg \in Ecdsa -> {"ES"}
                        [] alg \in Rsa   -> {"RSA"}
                        [] OTHER         -> {}

\* ... and NewJwkPublicSource.
PublicBucket(alg) == CASE alg = "EdDSA" -> {"EdDSA"}
                       [] alg \in Ecdsa -> {"ES"}
                       [] alg \in Rsa   -> {"RSA"}
                       [] OTHER         -> {}

\* The plugin a bucket's source is given: it takes keys of one type, and signs or
\* verifies the way of one preset.  Only the RSA presets are checked to exist.
Plugin(bucket, alg) ==
    CASE bucket = "EdDSA" -> {[kty |-> "OKP", alg |-> "EdDSA"]}
      [] bucket = "ES"    -> {[kty |-> "EC", alg |-> JwsPresetsEcdsa[alg]]}
      [] bucket = "RSA"   -> {[kty |-> "RSA", alg |-> JwsPresetsRsa[a]] :
                                 a \in {alg} \cap DOMAIN JwsPresetsRsa}

\* The signers NewJwkProducers gives a usage of this algorithm, and the verifiers
\* NewJwkRecipients does.
Producers(alg)  == UNION {Plugin(bucket, alg) : bucket \in PrivateBucket(alg)}
Recipients(alg) == UNION {Plugin(bucket, alg) : bucket \in PublicBucket(alg)}

\* A configuration, usage -> algorithm, with which NewJwkPrivateSource and
\* NewJwkProducers return no error: the constructors main calls.
Signable(config) == \A u \in DOMAIN config : Producers(config[u]) # {}

\* One that JwkGen can make keys for, as far as the usages in due go.
Generable(config, due) == \A u \in due : Generated(config[u]) # {}

=============================================================================
