--------------------------- MODULE MCDescriptors ----------------------------
(***************************************************************************)
(* The descriptors of the instances: the handshake's messages, login5's,   *)
(* one message with every kind of field, and one with every width.         *)
(***************************************************************************)
EXTENDS PbDescriptor, TLC

Same == <<>>

\* A row is a tag, a logical type, a kind, an allocation type, a slot, and what differs
\* from the rest of a field's descriptor (Same if nothing does).
Field(row) ==
    LET f == row[6] @@
             [tag |-> row[1], lt |-> row[2], ht |-> row[3], at |-> row[4], slot |-> row[5],
              size |-> 4, max |-> 1, off |-> row[1], sub |-> "none",
              soff |-> IF row[2] = "SUBMESSAGE" \/ row[3] \in {"ONEOF", "REPEATED"} THEN 4 ELSE 0]
    IN  f @@ [width |-> PB_FIELDINFO_WIDTH_AUTO(f)]

\* What a set of one holds: a bound table is evaluated once, however often it is used.
The(S) == CHOOSE x \in S : TRUE

Descriptors(table) ==
    The({[d \in DOMAIN t |-> <<>> \o [i \in DOMAIN t[d] |-> The({Field(row) : row \in {t[d][i]}})]]
            : t \in {table}})

\* What login5 posts, and fields of every type.
NanopbMsgs ==
    Descriptors(
        [ClientInfo |->
            <<<<1, "STRING", "OPTIONAL", "CALLBACK", "client_id", Same>>,
              <<2, "STRING", "OPTIONAL", "CALLBACK", "device_id", Same>>>>,
         StoredCredential |->
            <<<<1, "STRING", "OPTIONAL", "CALLBACK", "username", Same>>,
              <<2, "BYTES", "OPTIONAL", "CALLBACK", "data", Same>>>>,
         Password |->
            <<<<1, "STRING", "OPTIONAL", "CALLBACK", "id", Same>>,
              <<2, "STRING", "OPTIONAL", "CALLBACK", "password", Same>>>>,
         Login5Request |->
            <<<<1, "SUBMESSAGE", "OPTIONAL", "STATIC", "client_info", [sub |-> "ClientInfo"]>>,
              <<2, "BYTES", "OPTIONAL", "CALLBACK", "login_context", Same>>,
              <<100, "SUBMESSAGE", "ONEOF", "STATIC", "login_method", [sub |-> "StoredCredential"]>>,
              <<101, "SUBMESSAGE", "ONEOF", "STATIC", "login_method", [sub |-> "Password"]>>>>,
         Duration |->
            <<<<1, "VARINT", "OPTIONAL", "STATIC", "seconds", [size |-> 8]>>,
              <<2, "VARINT", "OPTIONAL", "STATIC", "nanos", Same>>>>,
         Sample |->
            <<<<1, "UVARINT", "REQUIRED", "STATIC", "id", [size |-> 8]>>,
              <<2, "VARINT", "REPEATED", "STATIC", "codes", [max |-> 3, width |-> 4]>>,
              <<3, "BYTES", "REPEATED", "STATIC", "blobs", [max |-> 2]>>,
              <<4, "SUBMESSAGE", "REPEATED", "STATIC", "spans", [sub |-> "Duration", max |-> 2]>>,
              <<16, "FIXED32", "OPTIONAL", "STATIC", "crc", [soff |-> 4]>>,
              <<17, "FIXED64", "OPTIONAL", "STATIC", "time", [size |-> 8]>>,
              <<18, "SVARINT", "ONEOF", "STATIC", "choice", [size |-> 8]>>,
              <<19, "FIXED_LENGTH_BYTES", "ONEOF", "STATIC", "choice", [size |-> 2]>>,
              <<20, "SUBMESSAGE", "OPTIONAL", "STATIC", "span", [sub |-> "Duration"]>>,
              <<21, "STRING", "OPTIONAL", "STATIC", "name", [width |-> 8]>>,
              <<22, "BOOL", "REQUIRED", "STATIC", "last", [size |-> 1]>>>>])

\* The access point's descriptors of the handshake's messages, and values that just fit
\* a descriptor of each width.
HandshakeMsgs ==
    LET Sub(tag, slot, d) == <<tag, "SUBMESSAGE", "OPTIONAL", "STATIC", slot, [sub |-> d, size |-> 8]>>
        Num64(tag, slot) == <<tag, "UVARINT", "OPTIONAL", "STATIC", slot, [width |-> 2, size |-> 8]>>
        Byt(tag, slot) == <<tag, "BYTES", "OPTIONAL", "CALLBACK", slot, [size |-> 8]>>
        Str(tag, slot) == <<tag, "STRING", "OPTIONAL", "CALLBACK", slot, [size |-> 8]>>
    IN  Descriptors(
        [ClientHello |-> <<Sub(10, "build_info", "BuildInfo"), Num64(30, "cryptosuites_supported"),
                           Sub(50, "login_crypto_hello", "LoginCryptoHello"),
                           Byt(60, "client_nonce"), Byt(70, "padding"), Sub(80, "feature_set", "FeatureSet")>>,
         BuildInfo |-> <<Num64(10, "product"), Num64(30, "platform"), Num64(40, "version")>>,
         LoginCryptoHello |-> <<Sub(10, "diffie_hellman", "DiffieHellman")>>,
         DiffieHellman |-> <<Byt(10, "gc"), Num64(20, "server_keys_known")>>,
         FeatureSet |-> <<Num64(1, "autoupdate2")>>,
         LoginRequest |-> <<Sub(10, "login_credentials", "LoginCredentials"),
                            Sub(50, "system_info", "SystemInfo"), Str(70, "version_string")>>,
         LoginCredentials |-> <<Str(10, "username"), Num64(20, "typ"), Byt(30, "auth_data")>>,
         SystemInfo |-> <<Num64(10, "cpu_family"), Num64(60, "os"),
                          Str(90, "system_information_string"), Str(100, "device_id")>>,
         Edges |->
            <<<<1, "BOOL", "OPTIONAL", "STATIC", "a", [off |-> 255, soff |-> 15, size |-> 15]>>,
              <<63, "SUBMESSAGE", "OPTIONAL", "STATIC", "b",
                [sub |-> "Duration", max |-> 4095, size |-> 4095, off |-> 65535]>>,
              <<64, "SVARINT", "REQUIRED", "STATIC", "c", [width |-> 2]>>,
              <<65, "UVARINT", "REQUIRED", "STATIC", "h", [width |-> 2]>>,
              <<1023, "SUBMESSAGE", "ONEOF", "STATIC", "d", [sub |-> "Password", soff |-> 15]>>,
              <<1024, "EXTENSION", "OPTIONAL", "CALLBACK", "e", [width |-> 4]>>,
              <<1087, "SUBMESSAGE", "REPEATED", "STATIC", "f",
                [sub |-> "ClientInfo", width |-> 4, soff |-> 127, max |-> 65535]>>,
              <<65535, "BYTES", "REPEATED", "STATIC", "g",
                [width |-> 8, soff |-> 127, max |-> 65535, size |-> 65535, off |-> 65535]>>>>])

\* Tags there are, and tags that differ from one above its low six bits only.
MCTags ==
    {0, 1, 2, 3, 22, 36, 37, 63, 64, 65, 100, 101, 127, 1023, 1024, 1087, 1088, 65535, 65536}

=============================================================================
