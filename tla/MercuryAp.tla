----------------------------- MODULE MercuryAp ------------------------------
(***************************************************************************)
(* The other end of the handshake of MercuryProto: an access point that    *)
(* reads the client's messages with nanopb.                                *)
(***************************************************************************)
EXTENDS MercuryProto, PbMessage

\* What a nanopb reader makes of bytes, with the messages' own descriptors.
ApReads(d, bytes) == pb_decode(pb_istream_from_buffer(bytes), d, Armed(d))

(* The access point reads from ClientHello and LoginRequest what was meant:*)
(* key, nonce and version; the user, if there is one, the type, and the    *)
(* authentication data bit for bit, or what fits the buffers of it.        *)
RequestsRead ==
    LET KeyRead(dh) == dh["gc"].d = Gc /\ dh["server_keys_known"].d = {0}
        HelloRead(ap) ==
            /\ ap.ok
            /\ KeyRead(ap.v["login_crypto_hello"].d["diffie_hellman"].d)
            /\ ap.v["client_nonce"].d = Nonce
            /\ ap.v["build_info"].d["platform"].d = {1}
            /\ ap.v["build_info"].d["version"].d = Version
        room == IF args.auth.type = 2 THEN AuthMax ELSE (6 * (AuthMax - 5)) \div 8
        CredRead(cred, blob) ==
            /\ cred["username"].d = args.user
            /\ cred["typ"].d = Bits(args.auth.type)
            /\ cred["auth_data"].d = SubSeq(blob, 1, Min({Len(blob), room}))
        LoginRead(ap) ==
            /\ ap.ok
            /\ CredRead(ap.v["login_credentials"].d, args.auth.blob)
            /\ ap.v["system_info"].d["device_id"].d = DeviceText
            /\ ap.v["version_string"].d = VersionText
    IN  /\ phase = "hello" =>
            /\ read_be32(SubSeq(hello, 3, 6)) = Len(hello)
            /\ HelloRead(ApReads("ClientHello", SubSeq(hello, 7, Len(hello))))
        /\ phase = "login" => LoginRead(ApReads("LoginRequest", login))

=============================================================================
