------------------------------- MODULE Datatypes -------------------------------
(***************************************************************************)
(* The serialised forms of the common datatypes: Certificate, Date,        *)
(* Mapping, RouterAddress, RouterIdentity and RouterInfo, with the         *)
(* signature of a RouterInfo.                                              *)
(***************************************************************************)
EXTENDS Wire, TLC

CONSTANTS KeyLen,      \* bytes of an encryption key: 256
          SigningLen,  \* bytes of a signing key: 128
          SigLen       \* bytes of a signature: 40 (1 for the opaque Signature)

-----------------------------------------------------------------------------
\* [type, payload]
CertificateBytes(c) == <<c.type>> \o Digits(Len(c.payload), 2) \o c.payload

ParseCertificate(b, at) ==
  IF Left(b, at) = 0 \/ b[at] \notin 0 .. 4 THEN Thrown
  ELSE Then(ParseSized(b, at + 1, 2), LAMBDA p :
         Parsed([type |-> b[at], payload |-> p.v], p.at))

DateBytes(d) == Digits(d, 8)
ParseDate(b, at) == ParseUint(b, at, 8)

-----------------------------------------------------------------------------
(* A Mapping is a function from keys to values, both strings.              *)

Equal == 3
Semicolon == 4

\* The order of std::map<std::string, ...>.
Before(k, l) ==
  \E n \in 0 .. Len(k) :
    /\ n < Len(l) /\ SubSeq(k, 1, n) = SubSeq(l, 1, n)
    /\ n = Len(k) \/ k[n + 1] < l[n + 1]

MappingBytes(m) ==
  LET entry(k) == Digits(Len(k), 1) \o k \o <<Equal>> \o Digits(Len(m[k]), 1) \o m[k]
                  \o <<Semicolon>>
      keys == SetToSortSeq(DOMAIN m, Before)
      body == FlattenSeq([n \in 1 .. Len(keys) |-> entry(keys[n])])
  IN  Digits(Len(body), 2) \o body

\* The separators are skipped, not looked at.
ParseEntry(b, at) ==
  Then(ParseSized(b, at, 1), LAMBDA k :
    Then(ParseSized(b, k.at + 1, 1), LAMBDA v :
      Then(Take(b, v.at, 1), LAMBDA s : Parsed(k.v :> v.v, s.at))))

\* Entries until the size is used up; a later value replaces an earlier one.
ParseMapping(b, at) ==
  Then(ParseSized(b, at, 2), LAMBDA body :
    LET rest[p \in 1 .. Len(body.v) + 1] ==
          IF p = Len(body.v) + 1 THEN Parsed(<<>>, p)
          ELSE Then(ParseEntry(body.v, p), LAMBDA e :
                 Then(rest[e.at], LAMBDA r : Parsed(r.v @@ e.v, r.at)))
    IN  Then(rest[1], LAMBDA r : Parsed(r.v, body.at)))

-----------------------------------------------------------------------------
\* [cost, expiration, transport, options]
AddressBytes(a) ==
  Digits(a.cost, 1) \o DateBytes(a.expiration)
  \o Digits(Len(a.transport), 1) \o a.transport \o MappingBytes(a.options)

ParseAddress(b, at) ==
  Then(ParseUint(b, at, 1), LAMBDA c :
    Then(ParseDate(b, c.at), LAMBDA d :
      Then(ParseSized(b, d.at, 1), LAMBDA t :
        Then(ParseMapping(b, t.at), LAMBDA o :
          Parsed([cost |-> c.v, expiration |-> d.v, transport |-> t.v, options |-> o.v],
                 o.at)))))

\* [key, signing, certificate]
IdentityBytes(i) == i.key \o i.signing \o CertificateBytes(i.certificate)

ParseIdentity(b, at) ==
  Then(Take(b, at, KeyLen), LAMBDA k :
    Then(Take(b, k.at, SigningLen), LAMBDA s :
      Then(ParseCertificate(b, s.at), LAMBDA c :
        Parsed([key |-> k.v, signing |-> s.v, certificate |-> c.v], c.at))))

-----------------------------------------------------------------------------
\* [identity, published, addresses, options, signature]
SignedBytes(r) ==
  IdentityBytes(r.identity) \o DateBytes(r.published)
  \o Digits(Len(r.addresses), 1)
  \o FlattenSeq([n \in 1 .. Len(r.addresses) |-> AddressBytes(r.addresses[n])])
  \o <<0>> \o MappingBytes(r.options)

InfoBytes(r) == SignedBytes(r) \o r.signature

\* The signature is what the array ends with, and is not read past.
ParseInfo(b, at) ==
  Then(ParseIdentity(b, at), LAMBDA i :
    Then(ParseDate(b, i.at), LAMBDA d :
      Then(ParseUint(b, d.at, 1), LAMBDA n :
        Then(ParseMany(b, n.at, n.v, ParseAddress), LAMBDA a :
          Then(ParseMapping(b, a.at + 1), LAMBDA o :
            IF Left(b, o.at) < SigLen THEN Thrown
            ELSE Parsed([identity |-> i.v, published |-> d.v, addresses |-> a.v,
                         options |-> o.v,
                         signature |-> SubSeq(b, Len(b) - SigLen + 1, Len(b))], o.at))))))

\* DSA over SHA-1, ideally: one opaque symbol tells the key and the bytes.
Signature(signing, bytes) == <<[by |-> signing, of |-> bytes]>>

Sign(r) == [r EXCEPT !.signature = Signature(r.identity.signing, SignedBytes(r))]

VerifySignature(r) == r.signature = Signature(r.identity.signing, SignedBytes(r))
=============================================================================
