---- MODULE SigningBytes ----
(* The bytes that are signed and hashed (protocol/src/signing_bytes.rs and the layouts built with it):
   a domain tag, a header, the fields in order and an extensions region.  One author signs a draft,
   the bytes may be damaged in storage, and a verifier reads them or rebuilds them from the stored
   envelope and fields; author and verifier may run builds of different versions.
   A byte is a number below 256; every field of fixed width but u8, u16 and u32 is one byte wide. *)
EXTENDS Integers, Sequences, SequencesExt, FiniteSets

CONSTANTS
    Builds,                 \* what a build supports: [layouts, rules, algos, understood, caps]
    TagBytes,               \* the bytes of the tag of each kind
    Drafts,                 \* the drafts an author may sign
    Noise                   \* the bytes that damage may leave behind

(* No tag is a prefix of another: a tag has no length of its own (the registry and its test). *)
ASSUME TagsPrefixFree ==
    \A k, l \in DOMAIN TagBytes : IsPrefix(TagBytes[k], TagBytes[l]) => k = l

VARIABLES
    author, verifier,       \* the builds of the two sides
    draft,                  \* what the author signs
    wire,                   \* the bytes: <<>> before they are written
    refusal,                \* the error the author's Builder gave, or Ok
    damaged,                \* whether the bytes were changed since
    verdict,                \* what the verifier's Reader said
    rebuilt                 \* what the verifier rebuilt from envelope and fields

signingVars == <<author, verifier, draft, wire, refusal, damaged, verdict, rebuilt>>

Tag(kind) == TagBytes[kind]

Ok == "ok"

\* The first error of a list of checks made in order.
First(errors) == LET bad == SelectSeq(errors, LAMBDA e : e # Ok)
                 IN  IF bad = <<>> THEN Ok ELSE bad[1]

to_be_bytes(n, width) == [i \in 1..width |-> (n \div 256 ^ (width - i)) % 256]
from_be_bytes(s) == FoldLeft(LAMBDA acc, b : 256 * acc + b, 0, s)

----
(* Versions. *)

\* caps_in over the build's table of <<first rules version, largest extensions region>> rows: the
\* last row that starts at or below the version, else the first row.
caps_in(build, version) ==
    LET rows == SelectSeq(build.caps, LAMBDA row : row[1] <= version)
    IN  IF rows = <<>> THEN build.caps[1][2] ELSE Last(rows)[2]

check_layout(build, kind, version) ==
    IF version > build.layouts[kind] THEN "NeedsNewer.Layout"
    ELSE IF version < 1 THEN "Unsupported.Layout" ELSE Ok

check_rules(build, version) ==
    IF version > build.rules THEN "NeedsNewer.Rules"
    ELSE IF version < 1 THEN "Unsupported.Rules" ELSE Ok

----
(* Extensions. *)

EXTENSION_ENTRY_HEADER == 7

\* The running size of the first n entries.
Total(entries, n) == FoldLeft(LAMBDA acc, e : acc + EXTENSION_ENTRY_HEADER + Len(e.value), 0,
                              SubSeq(entries, 1, n))

\* Extensions::new: size per entry, then for each adjacent pair a duplicate or a descent.
new(build, entries, rules) ==
    LET size(i) == IF Total(entries, i) > caps_in(build, rules) THEN "ExtensionsTooLarge" ELSE Ok
        pair(i) == IF entries[i].type = entries[i + 1].type THEN "ExtensionDuplicate"
                   ELSE IF entries[i].type > entries[i + 1].type THEN "ExtensionsUnsorted" ELSE Ok
    IN  First([i \in 1..Len(entries) |-> size(i)]
              \o [i \in 1..(Len(entries) - 1) |-> pair(i)])

encode(entries) ==
    to_be_bytes(Len(entries), 2)
    \o FlattenSeq([i \in DOMAIN entries |->
            to_be_bytes(entries[i].type, 2)
            \o <<IF entries[i].critical THEN 1 ELSE 0>>
            \o to_be_bytes(Len(entries[i].value), 4) \o entries[i].value])

require_understood(build, entries) ==
    IF \E i \in DOMAIN entries : entries[i].critical /\ entries[i].type \notin build.understood
    THEN "NeedsNewer.CriticalExtension" ELSE Ok

----
(* Builder: how each kind of field is written.  A field is [as, value]. *)

bytesRaw(s) == s
bytes(s) == to_be_bytes(Len(s), 4) \o s
fixed(n) == <<n>>
u16(n) == to_be_bytes(n, 2)
u32(n) == to_be_bytes(n, 4)
key(k) == <<k.algo>> \o fixed(k.value)
hash_algo(a) == <<a>>
\* An optional previous hash: a flag, then the hash when there is one.
position(prev) == IF prev = <<>> THEN <<0>> ELSE <<1>> \o fixed(prev[1])
\* A list of texts: a count, then each text.
texts(list) == u32(Len(list)) \o FlattenSeq([i \in DOMAIN list |-> bytes(list[i])])

(* The layouts: the fields of each signed kind, in the order its function writes them.
   d.text[i], d.num[i], d.prev, d.list, d.key and d.algo are the values the draft gives them. *)

\* sth.rs signing_message: tree_size, network_id, signing_key_id, created_at, hash_algo, root.
signing_message(d) ==
    fixed(d.num[1]) \o bytes(d.text[1]) \o bytes(d.text[2]) \o fixed(d.num[2])
    \o hash_algo(d.algo) \o fixed(d.num[3])

\* witness.rs witness_signing_message: tree_size, network, author time, author key id, author
\* signature, witness key id, witness key, observed_at, hash_algo, root.
witness_signing_message(d) ==
    fixed(d.num[1]) \o bytes(d.text[1]) \o fixed(d.num[2]) \o bytes(d.text[2]) \o key(d.key)
    \o bytes(d.text[3]) \o key(d.key) \o fixed(d.num[3]) \o hash_algo(d.algo) \o fixed(d.num[4])

\* witness.rs witness_announce_message: base URL, key, announced_at.
witness_announce_message(d) == bytes(d.text[1]) \o key(d.key) \o fixed(d.num[1])

\* ledger_entry.rs entry_signing_bytes: network, shard, seq, event id, kind, issuer, subject,
\* version, time, hash_algo, previous hash, payload hash.
entry_signing_bytes(d) ==
    bytes(d.text[1]) \o bytes(d.text[2]) \o fixed(d.num[1]) \o fixed(d.num[2]) \o bytes(d.text[3])
    \o bytes(d.text[4]) \o bytes(d.text[5]) \o u32(d.num[3]) \o fixed(d.num[4])
    \o hash_algo(d.algo) \o fixed(d.num[5]) \o fixed(d.num[6])

\* identity_chain.rs chain_event_signing_bytes: identity, seq, event id, kind, issuer, subject,
\* version, time, hash_algo, optional previous hash, payload hash.
chain_event_signing_bytes(d) ==
    fixed(d.num[1]) \o fixed(d.num[2]) \o fixed(d.num[3]) \o bytes(d.text[1]) \o bytes(d.text[2])
    \o bytes(d.text[3]) \o u32(d.num[4]) \o fixed(d.num[5]) \o hash_algo(d.algo)
    \o position(d.prev) \o fixed(d.num[6])

\* identity_chain.rs key_event_signing_bytes: identity, seq, hash_algo, optional previous hash,
\* then a content byte and the fields of a device grant (1) or of a revocation (2).
key_event_signing_bytes(d) ==
    fixed(d.num[1]) \o fixed(d.num[2]) \o hash_algo(d.algo) \o position(d.prev)
    \o IF d.grant THEN <<1>> \o fixed(d.num[3]) \o fixed(d.num[4]) \o key(d.key) \o fixed(d.num[5])
                       \o key(d.key)
                  ELSE <<2>> \o fixed(d.num[3]) \o fixed(d.num[4]) \o key(d.key)

\* identity_id.rs: registration, device grant and key revocation.
identity_created_signing_bytes(d) ==
    bytes(d.text[1]) \o fixed(d.num[1]) \o fixed(d.num[2]) \o key(d.key) \o bytes(d.text[2])
device_grant_approval_signing_bytes(d) ==
    bytes(d.text[1]) \o fixed(d.num[1]) \o fixed(d.num[2]) \o fixed(d.num[3]) \o key(d.key)
    \o fixed(d.num[4]) \o hash_algo(d.algo) \o position(d.prev)
signing_key_revoked_signing_bytes(d) ==
    bytes(d.text[1]) \o fixed(d.num[1]) \o fixed(d.num[2]) \o fixed(d.num[3])
    \o fixed(d.num[4]) \o hash_algo(d.algo) \o position(d.prev)

\* achievements.rs: what every attestation signature starts with, then one issuance, a bulk
\* issuance and a revocation.
AttestationSigner(d) == bytes(d.text[1]) \o bytes(d.text[2]) \o bytes(d.text[3]) \o fixed(d.num[1])
attestation_signing_bytes(d) ==
    AttestationSigner(d) \o fixed(d.num[2]) \o bytes(d.text[4]) \o fixed(d.num[3])
bulk_attestation_signing_bytes(d) ==
    AttestationSigner(d) \o fixed(d.num[2]) \o fixed(d.num[3]) \o texts(d.list)
revocation_signing_bytes(d) ==
    AttestationSigner(d) \o fixed(d.num[2]) \o bytes(d.text[4]) \o hash_algo(d.algo) \o fixed(d.num[3])

\* The conformance layouts, which the Reader reads back (test vectors).
conformance(d) == bytes(d.text[1]) \o key(d.key) \o hash_algo(d.algo) \o bytes(d.text[2])

fields(d) ==
    CASE d.kind = "settlement.sth" -> signing_message(d)
      [] d.kind = "witness.cosign" -> witness_signing_message(d)
      [] d.kind = "witness.announce" -> witness_announce_message(d)
      [] d.kind = "ledger.entry" -> entry_signing_bytes(d)
      [] d.kind = "identity.chain_event" -> chain_event_signing_bytes(d)
      [] d.kind = "identity.key_event" -> key_event_signing_bytes(d)
      [] d.kind = "identity.created" -> identity_created_signing_bytes(d)
      [] d.kind = "device_grant.approved" -> device_grant_approval_signing_bytes(d)
      [] d.kind = "identity.signing_key_revoked" -> signing_key_revoked_signing_bytes(d)
      [] d.kind = "attestation.issue" -> attestation_signing_bytes(d)
      [] d.kind = "attestation.bulk_issue" -> bulk_attestation_signing_bytes(d)
      [] d.kind = "attestation.revoke" -> revocation_signing_bytes(d)
      [] d.kind = "conformance" -> conformance(d)

\* The bytes of a draft, with the header and the extensions region, whatever any check says.
Laid(d) == Tag(d.kind) \o u16(d.layout) \o u32(d.rules) \o fields(d) \o encode(d.entries)

\* Builder::with_rules, the field calls and Builder::finish: the header's errors stick, then the
\* extensions are checked.
finish(build, d) ==
    First(<<check_layout(build, d.kind, d.layout), check_rules(build, d.rules),
            new(build, d.entries, d.rules), require_understood(build, d.entries)>>)

----
(* Reader. *)

Cursor(s) == [rest |-> s, taken |-> <<>>, error |-> Ok]
StopAt(c, bad, e) == IF c.error = Ok /\ bad THEN [c EXCEPT !.error = e] ELSE c

take(c, n) ==
    LET long == StopAt(c, Len(c.rest) < n, "Truncated")
    IN  IF long.error # Ok THEN long
        ELSE [c EXCEPT !.taken = SubSeq(c.rest, 1, n),
                       !.rest = SubSeq(c.rest, n + 1, Len(c.rest))]

\* Any flag bit but the critical one is reserved.
reserved(flags) == flags \notin {<<0>>, <<1>>}

\* ByteCursor::extensions, one entry: type, flags, length, running size, value.
ReadEntry(c, max) ==
    LET type == take(c, 2)
        flags == take(type, 1)
        length == take(StopAt(flags, reserved(flags.taken), "ExtensionReservedFlags"), 4)
        total == c.total + EXTENSION_ENTRY_HEADER + from_be_bytes(length.taken)
        value == take(StopAt(length, total > max, "ExtensionsTooLarge"), from_be_bytes(length.taken))
    IN  IF value.error # Ok THEN value
        ELSE [value EXCEPT !.total = total,
                           !.entries = Append(@, [type |-> from_be_bytes(type.taken),
                                                  critical |-> flags.taken[1] % 2 = 1,
                                                  value |-> value.taken])]

RECURSIVE ReadEntries(_, _, _)
ReadEntries(c, n, max) ==
    IF n = 0 \/ c.error # Ok THEN c ELSE ReadEntries(ReadEntry(c, max), n - 1, max)

\* ByteCursor::extensions: the count, the entries, then Extensions::new over them.
extensions(build, c, rules) ==
    LET count == take(c, 2)
        start == [rest |-> count.rest, taken |-> <<>>, error |-> count.error, entries |-> <<>>,
                  total |-> 0]
        end == ReadEntries(start, from_be_bytes(count.taken), caps_in(build, rules))
    IN  [end EXCEPT !.error = IF @ # Ok THEN @ ELSE new(build, end.entries, rules)]

\* A region is all that remains (Extensions::decode, Reader::finish).
whole(end) == StopAt(end, end.rest # <<>>, "TrailingBytes")

\* Extensions::decode of a stored region.
decode(build, s, rules) == whole(extensions(build, Cursor(s), rules))

\* One field of a layout: a length and its bytes, or an algorithm byte, with a value for a key.
ReadField(build, c, as) ==
    IF as = "bytes"
    THEN LET length == take(c, 4)
             value == take(length, from_be_bytes(length.taken))
         IN  [value EXCEPT !.out = Append(@, value.taken)]
    ELSE LET algo == take(c, 1)
             known == StopAt(algo, algo.taken \notin {<<a>> : a \in build.algos},
                           IF as = "key" THEN "NeedsNewer.SigAlgo" ELSE "NeedsNewer.HashAlgo")
             value == take(known, IF as = "key" THEN 1 ELSE 0)
         IN  [value EXCEPT !.out = Append(@, algo.taken \o value.taken)]

\* Reader::new, the field calls of the conformance layout in order, and Reader::finish.
Read(build, s) ==
    LET start == [rest |-> s, taken |-> <<>>, error |-> Ok, out |-> <<>>]
        tag == take(StopAt(start, ~IsPrefix(Tag("conformance"), s), "TagMismatch"),
                    Len(Tag("conformance")))
        layout == take(tag, 2)
        layoutSays == check_layout(build, "conformance", from_be_bytes(layout.taken))
        rules == take(StopAt(layout, layoutSays # Ok, layoutSays), 4)
        rulesSays == check_rules(build, from_be_bytes(rules.taken))
        read == FoldLeft(LAMBDA c, as : ReadField(build, c, as),
                         StopAt(rules, rulesSays # Ok, rulesSays), <<"bytes", "key", "hash_algo", "bytes">>)
        end == IF read.error # Ok THEN [error |-> read.error, entries |-> <<>>]
               ELSE whole(extensions(build, read, from_be_bytes(rules.taken)))
    IN  [error |-> First(<<end.error, require_understood(build, end.entries)>>),
         layout |-> layout.taken, rules |-> rules.taken, out |-> read.out, entries |-> end.entries]

----
(* Envelope: what is stored beside the fields of a head, a cosignature, an entry or a chained event. *)

Enveloped == {"settlement.sth", "witness.cosign", "ledger.entry", "identity.chain_event", "conformance"}

\* EnvelopeWire::to_envelope and Envelope::from_parts, then Builder::with_envelope over the fields;
\* a kind without an envelope is rebuilt by Builder::new, at the verifier's own rules and without
\* extensions.
with_envelope(entries) == entries

Rebuilt(build, d) ==
    IF d.kind \in Enveloped
    THEN LET stored == decode(build, encode(d.entries), d.rules)
         IN  [error |-> First(<<check_layout(build, d.kind, d.layout), check_rules(build, d.rules),
                                stored.error, require_understood(build, stored.entries),
                                IF d.algo \in build.algos THEN Ok ELSE "NeedsNewer.HashAlgo">>),
              bytes |-> Laid([d EXCEPT !.entries = with_envelope(stored.entries)])]
    ELSE LET bare == [d EXCEPT !.layout = 1, !.rules = build.rules, !.entries = <<>>]
         IN  [error |-> finish(build, bare), bytes |-> Laid(bare)]

----

None == [error |-> "none"]

SigningInit ==
    /\ author \in Builds /\ verifier \in Builds
    /\ draft \in Drafts
    /\ wire = <<>> /\ refusal = Ok /\ damaged = FALSE
    /\ verdict = None /\ rebuilt = None

\* The author lays the draft out.  An implementation that does not check what its Builder refuses
\* still produces bytes; refusal keeps what the Builder says of them.
Sign ==
    /\ wire = <<>>
    /\ wire' = Laid(draft)
    /\ refusal' = finish(author, draft)
    /\ UNCHANGED <<author, verifier, draft, damaged, verdict, rebuilt>>

\* A byte is changed, the end is cut off or a byte is added, before the bytes are read; between
\* builds of one version, which is the case where nothing else can explain a refusal.
Damage ==
    /\ wire # <<>> /\ ~damaged /\ verdict = None /\ rebuilt = None
    /\ draft.kind = "conformance" /\ author = verifier
    /\ \/ \E i \in DOMAIN wire, b \in Noise : wire' = [wire EXCEPT ![i] = b]
       \/ \E n \in 0..(Len(wire) - 1) : wire' = SubSeq(wire, 1, n)
       \/ \E b \in Noise : wire' = Append(wire, b)
    /\ damaged' = TRUE
    /\ UNCHANGED <<author, verifier, draft, refusal, verdict, rebuilt>>

\* The verifier reads the bytes back.
Verify ==
    /\ wire # <<>> /\ verdict = None /\ draft.kind = "conformance"
    /\ verdict' = Read(verifier, wire)
    /\ UNCHANGED <<author, verifier, draft, wire, refusal, damaged, rebuilt>>

\* The verifier rebuilds the bytes from what is stored beside the signature and compares.
Rebuild ==
    /\ wire # <<>> /\ rebuilt = None /\ ~damaged /\ verdict = None
    /\ rebuilt' = Rebuilt(verifier, draft)
    /\ UNCHANGED <<author, verifier, draft, wire, refusal, damaged, verdict>>

SigningNext == Sign \/ Damage \/ Verify \/ Rebuild

SigningSpec == SigningInit /\ [][SigningNext]_signingVars

----

Messages == {[of |-> d, bytes |-> Laid(d)] : d \in Drafts}

(* Bytes have one meaning, whichever way it is got at: no two messages of any layout in the registry
   share their bytes, fields, header and extensions told apart; a reader accepts, damaged or not, only
   the bytes that what it read is laid out as; and a verifier that rebuilds a message from its stored
   fields and envelope gets the bytes that were signed, with the extensions it does not know. *)
OneMeaningPerBytes ==
    /\ (wire # <<>> /\ ~damaged) => \A m \in Messages : m.bytes = wire => m.of = draft
    /\ verdict # None /\ verdict.error = Ok =>
          wire = Tag("conformance") \o verdict.layout \o verdict.rules
                 \o bytes(verdict.out[1]) \o verdict.out[2] \o verdict.out[3] \o bytes(verdict.out[4])
                 \o encode(verdict.entries)
    /\ rebuilt # None /\ rebuilt.error = Ok /\ refusal = Ok /\ draft.kind \in Enveloped =>
          rebuilt.bytes = wire

-----------------------------------------------------------------------------
(* The canonical encoding of a free-form payload (crates/protocol/src/canonical_payload.rs): the
   strict reader of a JSON document, the reader behind serde's deserializer, and the writer of the
   one text that is hashed.  A writer puts a document together piece by piece; the node reads it
   with both readers and encodes what it read.  A text is a sequence of characters; a literal, and
   the four hexadecimal digits of an escape, are one character each. *)
CONSTANTS Scenes,   \* kind of text -> [opening, pieces, bound]: the pieces put after an opening, and how many
          MAX_SAFE_INTEGER, MAX_SIGNIFICANT_DIGITS, MAX_DEPTH,
          MIN_POINT,                \* 6 in the code: 0.<zeros><digits> is written down to 10^-MIN_POINT
          DOUBLE_DIGITS,            \* digits of the longest decimal a double is printed with
          RECURSION_LIMIT           \* nesting serde_json reads

ASSUME PayloadAssumption ==
    /\ MAX_SAFE_INTEGER \in Nat /\ MAX_DEPTH \in Nat
    /\ MAX_SIGNIFICANT_DIGITS \in 1..DOUBLE_DIGITS /\ MIN_POINT \in Nat
    /\ RECURSION_LIMIT \in 0..MAX_DEPTH

VARIABLES kindOfText, text, pieces, reading
payloadVars == <<kindOfText, text, pieces, reading>>

-----------------------------------------------------------------------------
(* Characters. *)

Digit == [c \in {"0", "1", "2", "3", "4", "5", "6", "7", "8", "9"} |->
            CHOOSE d \in 0..9 : ToString(d) = c]
Whitespace == {" ", "TAB", "LF", "CR"}

\* The code point of a character, and of the four hexadecimal digits of an escape.
Code == [c \in {"NUL", "BS", "TAB", "LF", "FF", "CR", "US", "\"", "\\", "/", "a", "PUA", "ASTRAL"} |->
    CASE c = "NUL" -> 0 [] c = "BS" -> 8 [] c = "TAB" -> 9 [] c = "LF" -> 10 [] c = "FF" -> 12
      [] c = "CR" -> 13 [] c = "US" -> 31 [] c = "\"" -> 34 [] c = "/" -> 47 [] c = "\\" -> 92
      [] c = "a" -> 97 [] c = "PUA" -> 57344 [] c = "ASTRAL" -> 65536]
Hex == [h \in {"x0000", "x001f", "x0061", "xd800", "xdc00", "xe000"} |->
    CASE h = "x0000" -> 0 [] h = "x001f" -> 31 [] h = "x0061" -> 97
      [] h = "xd800" -> 55296 [] h = "xdc00" -> 56320 [] h = "xe000" -> 57344]
Char(code) == CHOOSE c \in DOMAIN Code : Code[c] = code
Surrogate(code) == code \in 55296..57343

\* The short escapes of a string, character by letter.
Escapes == [c \in {"\"", "\\", "BS", "TAB", "LF", "FF", "CR"} |->
    CASE c = "BS" -> "b" [] c = "TAB" -> "t" [] c = "LF" -> "n" [] c = "FF" -> "f"
      [] c = "CR" -> "r" [] OTHER -> c]
Unescape == [e \in {"\"", "\\", "/", "b", "f", "n", "r", "t"} |->
    IF e = "/" THEN e ELSE CHOOSE c \in DOMAIN Escapes : Escapes[c] = e]

utf16(c) == IF Code[c] < 65536 THEN <<Code[c]>>
            ELSE <<55296 + (Code[c] - 65536) \div 1024, 56320 + ((Code[c] - 65536) % 1024)>>

-----------------------------------------------------------------------------
(* A value.  A number is its sign and 0.<digits> * 10^n, without zeros at either end; zero has no
   digits. *)

Number(neg, digits, n) == [t |-> "number", neg |-> neg, digits |-> digits, n |-> n]
Zero == Number(FALSE, <<>>, 0)
Literal(l) == [t |-> l]
Literals == {"true", "false", "null"}

Trim(ds) == LET keep == {i \in DOMAIN ds : ds[i] # 0}
            IN  IF keep = {} THEN <<>> ELSE SubSeq(ds, 1, CHOOSE i \in keep : \A j \in keep : j <= i)

\* The number that a sign, digits with the point after the first n, and an exponent write.
Decimal(neg, ds, n) ==
    LET lead == CHOOSE i \in 0..Len(ds) :
                    /\ \A j \in 1..i : ds[j] = 0
                    /\ i = Len(ds) \/ ds[i + 1] # 0
    IN  IF lead = Len(ds) THEN Zero
        ELSE Number(neg, Trim(SubSeq(ds, lead + 1, Len(ds))), n - lead)

\* The double nearest to a number, as the shortest decimal that reads back as it (digits past
\* DOUBLE_DIGITS are rounded half up).
double(v) ==
    LET ds == v.digits
        RECURSIVE Up(_)
        Up(s) == IF s = <<>> THEN <<1>>
                 ELSE IF s[Len(s)] < 9 THEN [s EXCEPT ![Len(s)] = @ + 1] ELSE Up(Front(s)) \o <<0>>
        cut == SubSeq(ds, 1, DOUBLE_DIGITS)
        up == Up(cut)
    IN  IF Len(ds) <= DOUBLE_DIGITS THEN v
        ELSE IF ds[DOUBLE_DIGITS + 1] < 5 THEN Number(v.neg, Trim(cut), v.n)
        ELSE Number(v.neg, Trim(up), v.n + Len(up) - Len(cut))

Integral(v) == v.n >= Len(v.digits)
Magnitude(v) == FoldLeft(LAMBDA acc, d : 10 * acc + d, 0,
                         v.digits \o [i \in 1..(v.n - Len(v.digits)) |-> 0])
Unsafe(v) == v.n > 9 \/ Magnitude(v) > MAX_SAFE_INTEGER

-----------------------------------------------------------------------------
(* Writing. *)

Text(out) == [err |-> "", out |-> out]
Bad(code) == [err |-> code, out |-> <<>>]
DigitText(ds) == [i \in DOMAIN ds |-> ToString(ds[i])]
Zeros(k) == [i \in 1..k |-> "0"]
MinusSign(v) == IF v.neg THEN <<"-">> ELSE <<>>

safe_integer(v) ==
    IF Unsafe(v) THEN Bad("invalid_number")
    ELSE Text(IF v = Zero THEN <<"0">>
              ELSE MinusSign(v) \o DigitText(v.digits) \o Zeros(v.n - Len(v.digits)))

\* The decimal text of a natural number.
RECURSIVE NatText(_)
NatText(i) == IF i < 10 THEN <<ToString(i)>> ELSE NatText(i \div 10) \o <<ToString(i % 10)>>

\* ECMAScript's text of a double.  (An integral one is at most MAX_SAFE_INTEGER, so the exponent
\* of the last form is negative.)
float_text(v) ==
    LET k == Len(v.digits)  n == v.n  ds == DigitText(v.digits)
    IN  IF v = Zero THEN Text(<<"0">>)
        ELSE IF Integral(v) /\ Unsafe(v) THEN Bad("invalid_number")
        ELSE IF ~Integral(v) /\ k > MAX_SIGNIFICANT_DIGITS THEN Bad("invalid_number")
        ELSE Text(MinusSign(v) \o
            (IF k <= n THEN ds \o Zeros(n - k)
             ELSE IF 0 < n THEN SubSeq(ds, 1, n) \o <<".">> \o SubSeq(ds, n + 1, k)
             ELSE IF -MIN_POINT < n THEN <<"0", ".">> \o Zeros(-n) \o ds
             ELSE <<ds[1]>> \o (IF k > 1 THEN <<".">> \o Tail(ds) ELSE <<>>)
                  \o <<"e", "-">> \o NatText(1 - n)))

number_text(v) == IF Integral(v) THEN safe_integer(v) ELSE float_text(v)

check_string(s) == "NUL" \notin Range(s)

\* A string between quotes: the short escapes, and \u00xx for the other control characters.
write_stringRaw(s) ==
    IF ~check_string(s) THEN Bad("nul_character") ELSE Text(<<"\"">> \o s \o <<"\"">>)

write_string(s) ==
    LET escaped(c) == IF c \in DOMAIN Escapes THEN <<"\\", Escapes[c]>>
                      ELSE IF c \in DOMAIN Code /\ Code[c] < 32
                      THEN <<"\\", "u", CHOOSE h \in DOMAIN Hex : Hex[h] = Code[c]>>
                      ELSE <<c>>
    IN  IF ~check_string(s) THEN Bad("nul_character")
        ELSE Text(<<"\"">> \o FlattenSeq([i \in DOMAIN s |-> escaped(s[i])]) \o <<"\"">>)

Lexicographic(s, t, weight(_)) ==
    \E k \in 1..(Len(s) + 1) :
        /\ \A j \in 1..(k - 1) : j <= Len(t) /\ s[j] = t[j]
        /\ k <= Len(t)
        /\ k <= Len(s) => weight(s[k]) < weight(t[k])

cmp_utf16(a, b) ==
    LET units(s) == FlattenSeq([i \in DOMAIN s |-> utf16(s[i])])
    IN  Lexicographic(units(a), units(b), LAMBDA u : u)

\* The texts of several results with commas between them, or the first refusal.
Joined(open, rs, close) ==
    IF \E i \in DOMAIN rs : rs[i].err # ""
    THEN Bad(rs[CHOOSE i \in DOMAIN rs : rs[i].err # "" /\ \A j \in 1..(i - 1) : rs[j].err = ""].err)
    ELSE Text(<<open>> \o FlattenSeq([i \in DOMAIN rs |-> (IF i > 1 THEN <<",">> ELSE <<>>) \o rs[i].out])
              \o <<close>>)

RECURSIVE write_value(_, _)
write_value(v, depth) ==
    LET member(name) == LET k == write_string(name)  w == write_value(v.map[name], depth + 1)
                        IN  IF k.err # "" THEN k ELSE IF w.err # "" THEN w
                            ELSE Text(k.out \o <<":">> \o w.out)
        keys == SetToSortSeq(DOMAIN v.map, cmp_utf16)
    IN  CASE depth > MAX_DEPTH -> Bad("too_deep")
          [] v.t \in Literals -> Text(<<v.t>>)
          [] v.t = "number" -> number_text(v)
          [] v.t = "string" -> write_string(v.s)
          [] v.t = "array" -> Joined("[", [i \in DOMAIN v.items |-> write_value(v.items[i], depth + 1)], "]")
          [] v.t = "object" -> Joined("{", [i \in DOMAIN keys |-> member(keys[i])], "}")

canonicalize(v) == write_value(v, 0)

-----------------------------------------------------------------------------
(* Reading.  A reader is "strict" (parse_strict's own parser) or "serde" (serde_json driving
   StrictVisitor); both take the same grammar. *)

Got(v, p) == [err |-> "", v |-> v, pos |-> p]
Refused(code) == [err |-> code, v |-> Zero, pos |-> 0]
Next1(r, then(_, _)) == IF r.err # "" THEN r ELSE then(r.v, r.pos)
At(s, p) == IF p <= Len(s) THEN s[p] ELSE "end"

RECURSIVE skip_ws(_, _)
skip_ws(s, p) == IF At(s, p) \in Whitespace THEN skip_ws(s, p + 1) ELSE p

\* The code an escape \u... at p writes and where the text goes on; -1 for a lone surrogate or no
\* hexadecimal digits.
hex4(s, p) ==
    LET hi == IF At(s, p) \in DOMAIN Hex THEN Hex[s[p]] ELSE -1
        lo == IF At(s, p + 1) = "\\" /\ At(s, p + 2) = "u" /\ At(s, p + 3) \in DOMAIN Hex
              THEN Hex[s[p + 3]] ELSE -1
    IN  IF hi \in 55296..56319
        THEN <<IF lo \in 56320..57343 THEN 65536 + (hi - 55296) * 1024 + lo - 56320 ELSE -1, p + 4>>
        ELSE <<IF Surrogate(hi) THEN -1 ELSE hi, p + 1>>

\* The rest of a string from p on, after what was read of it.  serde_json decodes \u0000 and the
\* visitor refuses the whole string.
RECURSIVE string(_, _, _, _)
string(reader, s, p, out) ==
    LET c == At(s, p)
        e == At(s, p + 1)
        u == hex4(s, p + 2)
    IN  CASE c = "end" -> Refused("malformed")
          [] c = "\"" -> IF check_string(out) THEN Got(out, p + 1) ELSE Refused("nul_character")
          [] c = "\\" /\ e \in DOMAIN Unescape -> string(reader, s, p + 2, Append(out, Unescape[e]))
          [] c = "\\" /\ e = "u" ->
                IF u[1] = -1 THEN Refused("malformed")
                ELSE IF u[1] = 0 /\ reader = "strict" THEN Refused("nul_character")
                ELSE string(reader, s, u[2], Append(out, Char(u[1])))
          [] c = "\\" /\ e \notin DOMAIN Unescape \cup {"u"} -> Refused("malformed")
          [] c \in DOMAIN Code /\ Code[c] < 32 -> Refused("malformed")
          [] OTHER -> string(reader, s, p + 1, Append(out, c))

\* The number token at p: its text, its value, whether it is written as an integer, and where it
\* ends.
number_token(s, p) ==
    LET run(i) == CHOOSE q \in i..(Len(s) + 1) :
                      At(s, q) \notin DOMAIN Digit /\ \A j \in i..(q - 1) : s[j] \in DOMAIN Digit
        nat(i, q) == [j \in 1..(q - i) |-> Digit[s[i + j - 1]]]
        i0 == IF At(s, p) = "-" THEN p + 1 ELSE p
        i1 == IF At(s, i0) = "0" THEN i0 + 1 ELSE run(i0)
        point == At(s, i1) = "."
        f1 == IF point THEN run(i1 + 1) ELSE i1
        exp == At(s, f1) \in {"e", "E"}
        e0 == IF At(s, f1 + 1) \in {"+", "-"} THEN f1 + 2 ELSE f1 + 1
        e1 == IF exp THEN run(e0) ELSE f1
        power == IF ~exp THEN 0 ELSE (IF At(s, f1 + 1) = "-" THEN -1 ELSE 1)
                                     * FoldLeft(LAMBDA acc, d : 10 * acc + d, 0, nat(e0, e1))
    IN  IF i1 = i0 \/ (point /\ f1 = i1 + 1) \/ (exp /\ e1 = e0)
        THEN [ok |-> FALSE]
        ELSE [ok |-> TRUE, token |-> SubSeq(s, p, e1 - 1), integer_form |-> ~point /\ ~exp, pos |-> e1,
              v |-> Decimal(At(s, p) = "-", nat(i0, i1) \o (IF point THEN nat(i1 + 1, f1) ELSE <<>>),
                            i1 - i0 + power)]

\* A number of the strict reader is written as ECMAScript prints it.
number(n) ==
    IF ~n.ok THEN Refused("malformed")
    ELSE IF n.integer_form
    THEN IF n.token = <<"-", "0">> \/ safe_integer(n.v).err # "" THEN Refused("invalid_number")
         ELSE Got(n.v, n.pos)
    ELSE IF float_text(double(n.v)).out # n.token THEN Refused("invalid_number")
    ELSE Got(double(n.v), n.pos)

\* A number of the visitor is judged by its value.
visit_number(n) ==
    IF ~n.ok THEN Refused("malformed")
    ELSE IF n.integer_form
    THEN IF safe_integer(n.v).err # "" THEN Refused("invalid_number") ELSE Got(n.v, n.pos)
    ELSE IF float_text(double(n.v)).err # "" THEN Refused("invalid_number")
    ELSE Got(double(n.v), n.pos)

\* Members of an object, or items of an array, from p on.  The visitor's recursion is serde_json's.
RECURSIVE value(_, _, _, _), object(_, _, _, _, _), array(_, _, _, _, _)
value(reader, s, p, depth) ==
    LET c == At(s, p)
        deep == reader = "serde" /\ depth >= RECURSION_LIMIT
    IN  CASE reader = "strict" /\ depth > MAX_DEPTH -> Refused("too_deep")
          [] c \in {"{", "["} /\ deep -> Refused("too_deep")
          [] c = "{" -> LET q == skip_ws(s, p + 1)
                        IN  IF At(s, q) = "}" THEN Got([t |-> "object", map |-> <<>>], q + 1)
                            ELSE object(reader, s, q, depth, <<>>)
          [] c = "[" -> LET q == skip_ws(s, p + 1)
                        IN  IF At(s, q) = "]" THEN Got([t |-> "array", items |-> <<>>], q + 1)
                            ELSE array(reader, s, q, depth, <<>>)
          [] c = "\"" -> Next1(string(reader, s, p + 1, <<>>), LAMBDA v, q : Got([t |-> "string", s |-> v], q))
          [] c \in Literals -> Got(Literal(c), p + 1)
          [] c \in DOMAIN Digit \cup {"-"} ->
                LET n == number_token(s, p) IN IF reader = "strict" THEN number(n) ELSE visit_number(n)
          [] OTHER -> Refused("malformed")

object(reader, s, p, depth, map) ==
    LET member(name, after) ==
            LET colon == skip_ws(s, after)
                add(v, end) ==
                    LET q == skip_ws(s, end)
                        added == (name :> v) @@ map
                    IN  IF name \in DOMAIN map THEN Refused("duplicate_key")
                        ELSE CASE At(s, q) = "," -> object(reader, s, skip_ws(s, q + 1), depth, added)
                               [] At(s, q) = "}" -> Got([t |-> "object", map |-> added], q + 1)
                               [] OTHER -> Refused("malformed")
            IN  IF At(s, colon) # ":" THEN Refused("malformed")
                ELSE Next1(value(reader, s, skip_ws(s, colon + 1), depth + 1), add)
    IN  IF At(s, p) # "\"" THEN Refused("malformed")
        ELSE Next1(string(reader, s, p + 1, <<>>), member)

array(reader, s, p, depth, items) ==
    Next1(value(reader, s, p, depth + 1),
          LAMBDA v, end :
            LET q == skip_ws(s, end)
            IN  CASE At(s, q) = "," -> array(reader, s, skip_ws(s, q + 1), depth, Append(items, v))
                  [] At(s, q) = "]" -> Got([t |-> "array", items |-> Append(items, v)], q + 1)
                  [] OTHER -> Refused("malformed"))

\* A whole document: nothing but whitespace around one value.
Document(reader, s) ==
    Next1(value(reader, s, skip_ws(s, 1), 0),
          LAMBDA v, end : IF skip_ws(s, end) = Len(s) + 1 THEN Got(v, 0) ELSE Refused("malformed"))
parse_strict(s) == Document("strict", s)
deserialize_strict(s) == Document("serde", s)

-----------------------------------------------------------------------------
Unread == [on |-> FALSE]

PayloadInit ==
    /\ kindOfText \in DOMAIN Scenes
    /\ text = Scenes[kindOfText].opening
    /\ pieces = 0
    /\ reading = Unread

\* A client writes on.
Write(piece) ==
    /\ ~reading.on /\ pieces < Scenes[kindOfText].bound
    /\ text' = text \o piece
    /\ pieces' = pieces + 1
    /\ UNCHANGED <<kindOfText, reading>>

\* A node is given the document.
Receive ==
    /\ ~reading.on
    /\ reading' = [on |-> TRUE, strict |-> parse_strict(text), serde |-> deserialize_strict(text)]
    /\ UNCHANGED <<kindOfText, text, pieces>>

PayloadNext == (\E piece \in Scenes[kindOfText].pieces : Write(piece)) \/ Receive
PayloadSpec == PayloadInit /\ [][PayloadNext]_payloadVars

-----------------------------------------------------------------------------
(* Properties. *)

Accepted == IF ~reading.on THEN {} ELSE {r \in {reading.strict, reading.serde} : r.err = ""}

\* The canonical text says the value and nothing else: the strict reader reads it back as the value
\* it was written for, and so would write it again.  Two values never share a text.
CanonicalIsFixed ==
    \A r \in Accepted :
        LET w == canonicalize(r.v) IN w.err = "" => parse_strict(w.out).err = "" /\ parse_strict(w.out).v = r.v

====
