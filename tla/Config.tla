------------------------------- MODULE Config -------------------------------
(***************************************************************************)
(* truefix-config's builder: how a [SESSION] map becomes a runnable        *)
(* session.  Every key is read where and in the order the builder reads    *)
(* it, and the first one that is missing or invalid decides.  Values are   *)
(* words of a small vocabulary; the tables below say what parsing a word   *)
(* gives.  An Option is a sequence of at most one element.                 *)
(***************************************************************************)
EXTENDS Integers, Sequences, SequencesExt, TLC

Ok(v) == [ok |-> v]
Err(why, key) == [err |-> why, key |-> key]
Failed(r) == "err" \in DOMAIN r

\* The first failure of a sequence of results, or ok.
AllOf(results) ==
  LET bad == SelectSeq(results, Failed) IN IF bad = <<>> THEN Ok("all") ELSE Head(bad)

Has(map, key) == key \in DOMAIN map
Get(map, key, default) == IF Has(map, key) THEN map[key] ELSE default
Opt(map, key) == IF Has(map, key) THEN <<map[key]>> ELSE <<>>

-----------------------------------------------------------------------------
(* What the vocabulary parses to. *)
Number == ("0" :> 0) @@ ("7" :> 7) @@ ("5001" :> 5001) @@ ("70000" :> 70000) @@ ("-1" :> -1)
Decimal == DOMAIN Number \cup {"1.5"}
TimeOfDay == ("09:00:00" :> 540) @@ ("17:30" :> 1050)
Weekday == ("Monday" :> 1) @@ ("fri" :> 5)
UtcOffset == ("+05:00" :> 300) @@ ("-03:00" :> -180)
NamedZones == {"America/New_York"}
Hosts == {"127.0.0.1", "10.0.0.1"}
ListOf == ("127.0.0.1,10.0.0.1" :> <<"127.0.0.1", "10.0.0.1">>) @@ ("5001,7" :> <<"5001", "7">>)
          @@ ("Monday,fri" :> <<"Monday", "fri">>) @@ ("TLSv1.2,TLSv1.3" :> <<"TLSv1.2", "TLSv1.3">>)
Split(v) == IF v \in DOMAIN ListOf THEN ListOf[v] ELSE <<v>>
TagValue == ("9001=HOUSE" :> <<9001, "HOUSE">>)
Bundled == {"FIX.4.4", "FIXT.1.1", "FIX.5.0SP2"}
Url == ("jdbc:postgresql://h/db" :> [jdbc |-> TRUE, scheme |-> "postgresql", user |-> <<>>])
       @@ ("jdbc:mysql://u@h/db" :> [jdbc |-> TRUE, scheme |-> "mysql", user |-> <<"u">>])
       @@ ("jdbc:sqlserver://h/db" :> [jdbc |-> TRUE, scheme |-> "sqlserver", user |-> <<>>])
       @@ ("jdbc:sqlite:f" :> [jdbc |-> TRUE, scheme |-> "sqlite", user |-> <<>>])
       @@ ("postgres://h/db" :> [jdbc |-> FALSE, scheme |-> "postgres", user |-> <<>>])
       @@ ("mssql://h/db" :> [jdbc |-> FALSE, scheme |-> "mssql", user |-> <<>>])
       @@ ("jdbc:h2:mem" :> [jdbc |-> TRUE, scheme |-> "h2", user |-> <<>>])
UrlOf(v) == IF v \in DOMAIN Url THEN Url[v] ELSE [jdbc |-> FALSE, scheme |-> v, user |-> <<>>]

-----------------------------------------------------------------------------
(* Readers of one key. *)
required(map, key) == IF Has(map, key) THEN Ok(map[key]) ELSE Err("MissingRequired", key)

bool_key(map, key, default) ==
  IF ~Has(map, key) THEN Ok(default)
  ELSE IF map[key] \in {"Y", "y"} THEN Ok(TRUE)
  ELSE IF map[key] \in {"N", "n"} THEN Ok(FALSE)
  ELSE Err("InvalidValue", key)

lenient_bool_key(map, key, default) ==
  IF Has(map, key) THEN map[key] \in {"Y", "y"} ELSE default

InRange(map, key, default, range) ==
  IF ~Has(map, key) THEN Ok(default)
  ELSE IF map[key] \in DOMAIN Number /\ Number[map[key]] \in range
       THEN Ok(Number[map[key]]) ELSE Err("InvalidValue", key)

u32_key(map, key, default) == InRange(map, key, default, Nat)

\* An optional number: usize_key, opt_u32_key and the keys read only when set.
OptNumber(map, key) ==
  IF Has(map, key)
  THEN LET r == u32_key(map, key, 0) IN IF Failed(r) THEN r ELSE Ok(<<r.ok>>)
  ELSE Ok(<<>>)

usize_key(map, key) == OptNumber(map, key)
opt_u32_key(map, key) == OptNumber(map, key)

f64_key(map, key, default) ==
  IF ~Has(map, key) THEN Ok(default)
  ELSE IF map[key] \in Decimal THEN Ok(map[key]) ELSE Err("InvalidValue", key)

\* A negative linger is none.
linger_key(map, key) ==
  LET r == InRange(map, key, -1, Int)
  IN  IF Failed(r) THEN r ELSE Ok(IF r.ok >= 0 THEN <<r.ok>> ELSE <<>>)

OneOf(map, key, default, words) ==
  IF ~Has(map, key) THEN Ok(default)
  ELSE IF map[key] \in words THEN Ok(map[key]) ELSE Err("InvalidValue", key)

precision_key(map, key) == OneOf(map, key, "MILLIS", {"SECONDS", "MILLIS", "MICROS", "NANOS"})
protocol_key(map, key) == OneOf(map, key, "SOH", {"SOH", "FAST", "SBE"})
port_key(map, key) == InRange(map, key, 0, 0..65535)

\* A comma-separated list of IP addresses.
IpList(map, key) ==
  LET hosts == IF Has(map, key) THEN Split(map[key]) ELSE <<>>
  IN  IF \A i \in DOMAIN hosts : hosts[i] \in Hosts THEN Ok(hosts)
      ELSE Err("InvalidValue", key)

-----------------------------------------------------------------------------
(* resolve_one's own keys, in its order: the key, its reader, its default.  *)
PlainKeys == <<
  <<"HeartBtInt", "u32", 30>>, <<"ResetOnLogon", "bool", TRUE>>,
  <<"ResetOnLogout", "bool", FALSE>>, <<"ResetOnDisconnect", "bool", FALSE>>,
  <<"PersistMessages", "bool", TRUE>>, <<"CheckLatency", "bool", TRUE>>,
  <<"MaxLatency", "u32", 120>>, <<"LogonTimeout", "u32", 10>>, <<"LogoutTimeout", "u32", 2>>,
  <<"ReconnectInterval", "interval", 30>>,
  <<"ResendRequestChunkSize", "u32", 0>>, <<"EnableLastMsgSeqNumProcessed", "bool", FALSE>>,
  <<"EnableNextExpectedMsgSeqNum", "bool", FALSE>>, <<"CheckCompID", "bool", TRUE>>,
  <<"RejectGarbledMessage", "bool", FALSE>>, <<"HeartBeatTimeoutMultiplier", "f64", "1.4">>,
  <<"TestRequestDelayMultiplier", "f64", "0.5">>, <<"TimeStampPrecision", "precision", "">>,
  <<"Protocol", "protocol", "">>, <<"FastTemplatePath", "template", "FAST">>,
  <<"SbeSchemaPath", "template", "SBE">>, <<"schedule", "schedule", "">>,
  <<"SendRedundantResendRequests", "bool", FALSE>>, <<"ResetOnError", "bool", FALSE>>,
  <<"DisconnectOnError", "bool", FALSE>>, <<"DisableHeartBeatCheck", "bool", FALSE>>,
  <<"RefreshOnLogon", "bool", FALSE>>, <<"ForceResendWhenCorruptedStore", "bool", FALSE>>,
  <<"ContinueInitializationOnError", "bool", FALSE>>,
  <<"RequiresOrigSendingTime", "bool", FALSE>>, <<"LogonTag", "tags", "">>,
  <<"InChanCapacity", "usize", 0>>, <<"SenderSubID", "text", "">>,
  <<"SenderLocationID", "text", "">>, <<"TargetSubID", "text", "">>,
  <<"TargetLocationID", "text", "">>, <<"SessionQualifier", "text", "">>,
  <<"local_bind", "local_bind", "">>, <<"SocketConnectTimeout", "usize", 0>> >>

-----------------------------------------------------------------------------
(* The resolve_ functions. *)

\* One number is a fixed interval, several are the steps.
resolve_reconnect_interval(map, default) ==
  LET steps == IF Has(map, "ReconnectInterval") THEN Split(map["ReconnectInterval"]) ELSE <<>>
      parsed == [i \in DOMAIN steps |-> u32_key("n" :> steps[i], "n", 0)]
  IN  IF Failed(AllOf(parsed)) THEN Err("InvalidValue", "ReconnectInterval")
      ELSE Ok([first |-> IF steps = <<>> THEN default ELSE parsed[1].ok,
               steps |-> IF Len(steps) <= 1 THEN <<>>
                         ELSE [i \in DOMAIN parsed |-> parsed[i].ok]])

resolve_protocol_paths(map, key, protocol) ==
  IF Get(map, "Protocol", "SOH") = protocol /\ ~Has(map, key)
  THEN Err("MissingRequired", key) ELSE Ok(Opt(map, key))

TagKeys == <<"LogonTag", "LogonTag1", "LogonTag2">>

\* The numbered keys count up to the first gap.
resolve_logon_tags(map) ==
  LET numbered == IF ~Has(map, "LogonTag1") THEN <<>>
                  ELSE IF ~Has(map, "LogonTag2") THEN <<"LogonTag1">> ELSE Tail(TagKeys)
      keys == SelectSeq(<<"LogonTag">>, LAMBDA k : Has(map, k)) \o numbered
      bad == SelectSeq(keys, LAMBDA k : map[k] \notin DOMAIN TagValue)
  IN  IF bad # <<>> THEN Err("InvalidValue", Head(bad))
      ELSE Ok([i \in DOMAIN keys |-> TagValue[map[keys[i]]]])

\* Host and port go together.
resolve_local_bind_addr(map) ==
  LET host == Has(map, "SocketLocalHost")
      port == Has(map, "SocketLocalPort")
  IN  IF ~host /\ ~port THEN Ok(<<>>)
      ELSE IF host # port THEN Err("InvalidValue", "SocketLocalHost/SocketLocalPort")
      ELSE IF Failed(port_key(map, "SocketLocalPort")) THEN port_key(map, "SocketLocalPort")
      ELSE IF map["SocketLocalHost"] \notin Hosts THEN Err("InvalidValue", "SocketLocalHost")
      ELSE Ok(<<map["SocketLocalHost"], map["SocketLocalPort"]>>)

parse_with(map, key, table) ==
  IF ~Has(map, key) THEN Ok(<<>>)
  ELSE IF map[key] \in DOMAIN table THEN Ok(<<table[map[key]]>>) ELSE Err("InvalidValue", key)

\* Weekdays and TimeZone are only looked at where there is a schedule.
resolve_schedule(map) ==
  LET nonstop == bool_key(map, "NonStopSession", FALSE)
      start_time == parse_with(map, "StartTime", TimeOfDay)
      end_time == parse_with(map, "EndTime", TimeOfDay)
      start_day == parse_with(map, "StartDay", Weekday)
      end_day == parse_with(map, "EndDay", Weekday)
      times == AllOf(<<start_time, end_time, start_day, end_day>>)
      set == <<start_day, end_day, start_time, end_time>>
      given == {i \in 1..4 : set[i].ok # <<>>}
      list == IF Has(map, "Weekdays") THEN Split(map["Weekdays"]) ELSE <<>>
      zone == Opt(map, "TimeZone")
  IN  IF Failed(nonstop) THEN nonstop
      ELSE IF nonstop.ok THEN Ok([kind |-> "non_stop"])
      ELSE IF Failed(times) THEN times
      ELSE IF given = {} THEN Ok([kind |-> "none"])
      ELSE IF given \notin {1..4, {3, 4}}
           THEN Err("InvalidValue", "StartTime/EndTime/StartDay/EndDay")
      ELSE IF \E i \in DOMAIN list : list[i] \notin DOMAIN Weekday
           THEN Err("InvalidValue", "Weekdays")
      ELSE IF zone # <<>> /\ zone[1] \notin DOMAIN UtcOffset \cup NamedZones
           THEN Err("InvalidValue", "TimeZone")
      ELSE Ok([kind |-> "window", times |-> [i \in 1..4 |-> set[i].ok],
               weekdays |-> list, zone |-> zone])

\* One row of PlainKeys.
Read(map, row) ==
  CASE row[2] = "bool" -> bool_key(map, row[1], row[3])
    [] row[2] = "u32" -> u32_key(map, row[1], row[3])
    [] row[2] = "usize" -> usize_key(map, row[1])
    [] row[2] = "f64" -> f64_key(map, row[1], row[3])
    [] row[2] = "text" -> Ok(Opt(map, row[1]))
    [] row[2] = "precision" -> precision_key(map, row[1])
    [] row[2] = "protocol" -> protocol_key(map, row[1])
    [] row[2] = "template" -> resolve_protocol_paths(map, row[1], row[3])
    [] row[2] = "interval" -> resolve_reconnect_interval(map, row[3])
    [] row[2] = "schedule" -> resolve_schedule(map)
    [] row[2] = "tags" -> resolve_logon_tags(map)
    [] row[2] = "local_bind" -> resolve_local_bind_addr(map)

Initiates(map) == map["ConnectionType"] = "initiator"

connection_type(map) ==
  LET r == required(map, "ConnectionType")
  IN  IF ~Failed(r) /\ r.ok \notin {"acceptor", "initiator"}
      THEN Err("UnknownConnectionType", "ConnectionType") ELSE r

resolve_address(map) ==
  LET host == IF Initiates(map) THEN required(map, "SocketConnectHost")
              ELSE Ok(Get(map, "SocketAcceptAddress", "0.0.0.0"))
      key == IF Initiates(map) THEN "SocketConnectPort" ELSE "SocketAcceptPort"
      first == AllOf(<<host, required(map, key), port_key(map, key)>>)
  IN  IF Failed(first) THEN first ELSE Ok([host |-> host.ok, port |-> port_key(map, key).ok])

FailoverKeys == << <<"SocketConnectHost1", "SocketConnectPort1">>,
                   <<"SocketConnectHost2", "SocketConnectPort2">> >>

\* Backups count up to the first number with neither key.
resolve_failover_addresses(map) ==
  LET Given(p) == Has(map, p[1]) \/ Has(map, p[2])
      pairs == IF ~Given(FailoverKeys[1]) THEN <<>>
               ELSE IF ~Given(FailoverKeys[2]) THEN <<FailoverKeys[1]>> ELSE FailoverKeys
      Endpoint(p) ==
        IF ~(Has(map, p[1]) /\ Has(map, p[2])) THEN Err("InvalidValue", p[1])
        ELSE LET port == port_key(map, p[2])
             IN  IF Failed(port) THEN port ELSE Ok([host |-> map[p[1]], port |-> port.ok])
      ends == [i \in DOMAIN pairs |-> Endpoint(pairs[i])]
  IN  IF Failed(AllOf(ends)) THEN AllOf(ends) ELSE Ok([i \in DOMAIN ends |-> ends[i].ok])

\* Nothing but a present pair is spliced, and never over the URL's own user.
splice_credentials(url, user, password) ==
  IF user # <<>> /\ password # <<>> /\ url.scheme # "sqlite" /\ url.user = <<>>
  THEN [url EXCEPT !.user = user] ELSE url

\* The URL without its jdbc: prefix, as the SQL backends read it.
strip_prefix(url) == [scheme |-> url.scheme, user |-> url.user]

Spliced(map, url) ==
  splice_credentials(strip_prefix(url), Opt(map, "JdbcUser"), Opt(map, "JdbcPassword"))

is_sql_scheme(url) == url.scheme \in {"postgres", "postgresql", "mysql", "sqlite"}
is_mssql_scheme(url) == url.scheme \in {"mssql", "sqlserver"}

jdbc_table_name_keys(map) ==
  <<Opt(map, "JdbcStoreSessionsTableName"), Opt(map, "JdbcStoreMessagesTableName"),
    Opt(map, "JdbcSessionIdDefaultPropertyValue")>>

PoolKeys == <<"JdbcMaxActiveConnection", "JdbcMinIdleConnection", "JdbcConnectionTimeout",
              "JdbcConnectionIdleTimeout", "JdbcMaxConnectionLifeTime",
              "JdbcConnectionKeepaliveTime">>

\* No options at all, or all six with the defaults (<<>>) of the absent ones.
jdbc_pool_options(map) ==
  LET read == [i \in DOMAIN PoolKeys |-> OptNumber(map, PoolKeys[i])]
  IN  IF \A i \in DOMAIN PoolKeys : ~Has(map, PoolKeys[i]) THEN Ok(<<>>)
      ELSE IF Failed(AllOf(read)) THEN AllOf(read)
      ELSE Ok(<<[i \in DOMAIN read |-> read[i].ok]>>)

\* Built with the features sql and mssql.  Only a jdbc: URL gets the separate
\* user and password.
jdbc_store_config(map) ==
  LET url == UrlOf(map["JdbcURL"])
      target == IF url.jdbc THEN Spliced(map, url) ELSE strip_prefix(url)
      pool == IF is_sql_scheme(url) THEN jdbc_pool_options(map) ELSE Ok(<<>>)
  IN  IF ~is_sql_scheme(url) /\ ~is_mssql_scheme(url)
           THEN Err("UnsupportedBackend", "JdbcURL")
      ELSE IF Failed(pool) THEN pool
      ELSE Ok([kind |-> IF is_sql_scheme(url) THEN "Sql" ELSE "Mssql", url |-> target,
               tables |-> jdbc_table_name_keys(map), pool |-> pool.ok])

\* FileStoreMaxCachedMsgs makes it a cached file store.
resolve_store(map) ==
  LET sync == bool_key(map, "FileStoreSync", TRUE)
      bodies == usize_key(map, "FileStoreMaxBodyRecords")
      cached == usize_key(map, "FileStoreMaxCachedMsgs")
      first == AllOf(<<sync, bodies, cached>>)
  IN  IF Has(map, "JdbcURL") THEN jdbc_store_config(map)
      ELSE IF ~Has(map, "FileStorePath") THEN Ok([kind |-> "Memory"])
      ELSE IF Failed(first) THEN first
      ELSE Ok([kind |-> IF cached.ok = <<>> THEN "File" ELSE "CachedFile",
               dir |-> map["FileStorePath"], sync |-> sync.ok,
               bodies |-> bodies.ok, cached |-> cached.ok])

\* The least version of the list; any other word is an error.
resolve_enabled_protocols(map) ==
  LET list == IF Has(map, "EnabledProtocols") THEN Split(map["EnabledProtocols"]) ELSE <<>>
      seen == {list[i] : i \in DOMAIN list}
  IN  IF list = <<>> THEN Ok(<<>>)
      ELSE IF ~(seen \subseteq {"TLSv1.2", "TLSv1.3"}) THEN Err("InvalidValue", "EnabledProtocols")
      ELSE Ok(<<IF "TLSv1.2" \in seen THEN "Tls12" ELSE "Tls13">>)

resolve_tls(map) ==
  LET ssl == bool_key(map, "SocketUseSSL", FALSE)
      auth == bool_key(map, "NeedClientAuth", FALSE)
      version == resolve_enabled_protocols(map)
      sni == bool_key(map, "UseSNI", FALSE)
      first == AllOf(<<auth, version, sni>>)
  IN  IF Failed(ssl) THEN ssl
      ELSE IF ~ssl.ok THEN Ok(<<>>)
      ELSE IF ~Has(map, "SocketKeyStore") /\ ~Has(map, "SocketKeyStoreBytes")
           THEN Err("MissingRequired", "SocketKeyStore or SocketKeyStoreBytes")
      ELSE IF Failed(first) THEN first
      ELSE Ok(<<[stores |-> <<Opt(map, "SocketKeyStore"), Opt(map, "SocketKeyStoreBytes"),
                              Opt(map, "SocketTrustStore"), Opt(map, "SocketTrustStoreBytes")>>,
                 auth |-> auth.ok, version |-> version.ok,
                 server |-> IF sni.ok THEN <<Get(map, "SNIHostName", "localhost")>> ELSE <<>>,
                 ciphers |-> Opt(map, "CipherSuites")]>>)

SwitchKeys == << <<"SocketTcpNoDelay", TRUE>>, <<"SocketKeepAlive", FALSE>>,
                 <<"SocketReuseAddress", FALSE>>, <<"SocketOobInline", FALSE>> >>

resolve_socket_options(map) ==
  LET switches == [i \in 1..4 |-> bool_key(map, SwitchKeys[i][1], SwitchKeys[i][2])]
      linger == linger_key(map, "SocketLinger")
      receive == usize_key(map, "SocketReceiveBufferSize")
      send == usize_key(map, "SocketSendBufferSize")
      traffic == opt_u32_key(map, "SocketTrafficClass")
      backlog == u32_key(map, "SocketBacklog", 1024)
      read == SubSeq(switches, 1, 3) \o <<linger, switches[4], receive, send, traffic, backlog>>
  IN  IF Failed(AllOf(read)) THEN AllOf(read)
      ELSE Ok([i \in DOMAIN read |-> <<read[i].ok>>])

SqlLogUrl(map, url) == Spliced(map, url)

\* JdbcURL wins over FileLogPath, and then the file keys are not read.
resolve_log(map) ==
  LET sql == <<bool_key(map, "JdbcLogHeartBeats", TRUE)>>
      file == <<bool_key(map, "FileLogHeartbeats", TRUE),
                bool_key(map, "FileIncludeTimeStampForMessages", FALSE),
                bool_key(map, "FileIncludeMilliseconds", FALSE),
                OptNumber(map, "MaxFileLogSize"), OptNumber(map, "FileLogMaxGenerations"),
                OptNumber(map, "FileLogRollIntervalSecs")>>
  IN  IF Has(map, "JdbcURL")
      THEN IF Failed(sql[1]) THEN sql[1]
           ELSE Ok([kind |-> "sql", url |-> SqlLogUrl(map, UrlOf(map["JdbcURL"])),
                    incoming |-> Get(map, "JdbcLogIncomingTable", "log_incoming"),
                    outgoing |-> Get(map, "JdbcLogOutgoingTable", "log_outgoing"),
                    event |-> Get(map, "JdbcLogEventTable", "log_event"),
                    heartbeats |-> sql[1].ok])
      ELSE IF ~Has(map, "FileLogPath") THEN Ok([kind |-> "none"])
      ELSE IF Failed(AllOf(file)) THEN AllOf(file)
      ELSE Ok([kind |-> "file", dir |-> map["FileLogPath"],
               switches |-> [i \in 1..3 |-> file[i].ok],
               bounds |-> [i \in 1..3 |-> file[i + 3].ok]])

resolve_log_kind(map) == OneOf(map, "Log", "File", {"Screen", "Tracing", "Composite", "File", "Sql"})

resolve_proxy(map) ==
  LET first == AllOf(<<required(map, "ProxyHost"), required(map, "ProxyPort"),
                       port_key(map, "ProxyPort")>>)
  IN  IF ~Has(map, "ProxyType") THEN Ok(<<>>)
      ELSE IF map["ProxyType"] \notin {"Socks4", "Socks5", "HttpConnect"}
           THEN Err("InvalidValue", "ProxyType")
      ELSE IF Failed(first) THEN first
      ELSE Ok(<<[type |-> map["ProxyType"], host |-> map["ProxyHost"],
                 port |-> port_key(map, "ProxyPort").ok,
                 user |-> Opt(map, "ProxyUser"), password |-> Opt(map, "ProxyPassword")]>>)

\* A list that is only read while its switch is on.
Switched(map, switch, read) ==
  LET on == bool_key(map, switch, FALSE)
  IN  IF Failed(on) THEN on ELSE IF on.ok THEN read ELSE Ok(<<>>)

resolve_trusted_proxy_addresses(map) ==
  Switched(map, "UseTCPProxy", IpList(map, "TrustedProxyAddresses"))

resolve_sync_write_timeout(map) ==
  Switched(map, "SocketSynchronousWrites", OptNumber(map, "SocketSynchronousWriteTimeout"))

load_dictionary_value(value) ==
  IF value \in Bundled THEN Ok(value) ELSE Err("InvalidValue", "DataDictionary")

OptionKeys == <<
  <<"ValidateFieldsOutOfOrder", TRUE>>, <<"ValidateChecksum", TRUE>>,
  <<"ValidateIncomingMessage", TRUE>>, <<"AllowPosDup", FALSE>>,
  <<"RequiresOrigSendingTime", FALSE>>, <<"ValidateFieldsHaveValues", TRUE>>,
  <<"ValidateUnorderedGroupFields", TRUE>>, <<"ValidateUserDefinedFields", FALSE>>,
  <<"AllowUnknownMsgFields", FALSE>>, <<"FirstFieldInGroupIsDelimiter", TRUE>> >>

option_keys(map) ==
  [i \in DOMAIN OptionKeys |-> bool_key(map, OptionKeys[i][1], OptionKeys[i][2])]

\* The transport dictionary comes before the application's.
resolve_validator(map) ==
  LET named == SelectSeq(<<"DataDictionary", "TransportDataDictionary", "AppDataDictionary">>,
                         LAMBDA k : Has(map, k))
      dict == load_dictionary_value(map[named[1]])
      first == AllOf(<<dict>> \o option_keys(map))
  IN  Switched(map, "UseDataDictionary",
        IF named = <<>> THEN Err("MissingRequired", "DataDictionary")
        ELSE IF Failed(first) THEN first
        ELSE Ok(<<[dict |-> dict.ok,
                   options |-> [i \in DOMAIN OptionKeys |-> option_keys(map)[i].ok]]>>))

resolve_fixt_dictionaries(map) ==
  LET app == load_dictionary_value(map["AppDataDictionary"])
      transport == load_dictionary_value(map["TransportDataDictionary"])
      first == AllOf(<<app, transport>>)
  IN  Switched(map, "UseDataDictionary",
        IF ~Has(map, "AppDataDictionary") \/ ~Has(map, "TransportDataDictionary") THEN Ok(<<>>)
        ELSE IF Failed(first) THEN first
        ELSE Ok(<<[transport |-> transport.ok, app |-> app.ok,
                   appl_ver_id |-> Get(map, "DefaultApplVerID", app.ok)]>>))

resolve_allowed_remote_addresses(map) == IpList(map, "AllowedRemoteAddresses")

\* A template where DynamicSession=Y or AcceptorTemplate is there at all.
acceptor_template(map) ==
  LET dynamic == bool_key(map, "DynamicSession", FALSE)
  IN  IF Failed(dynamic) THEN dynamic ELSE Ok(dynamic.ok \/ Has(map, "AcceptorTemplate"))

resolve_one(map) ==
  LET identity == <<required(map, "BeginString"), required(map, "SenderCompID"),
                    required(map, "TargetCompID"), connection_type(map)>>
      plain == [i \in DOMAIN PlainKeys |-> Read(map, PlainKeys[i])]
      rest == <<resolve_address(map), resolve_store(map), resolve_tls(map),
                resolve_socket_options(map),
                IF Initiates(map) THEN resolve_failover_addresses(map) ELSE Ok(<<>>),
                resolve_log(map), resolve_log_kind(map), resolve_proxy(map),
                resolve_trusted_proxy_addresses(map), resolve_sync_write_timeout(map),
                resolve_validator(map), resolve_fixt_dictionaries(map), acceptor_template(map),
                resolve_allowed_remote_addresses(map),
                bool_key(map, "LogMessageWhenSessionNotFound", FALSE)>>
      Values(read) == [i \in DOMAIN read |-> <<read[i].ok>>]
  IN  IF Failed(AllOf(identity)) THEN AllOf(identity)
      ELSE IF Failed(AllOf(plain)) THEN AllOf(plain)
      ELSE IF Failed(AllOf(rest)) THEN AllOf(rest)
      ELSE Ok([identity |-> Values(identity), plain |-> Values(plain), rest |-> Values(rest)])

\* All or nothing.
resolve(maps) ==
  LET all == [i \in DOMAIN maps |-> resolve_one(maps[i])]
  IN  IF Failed(AllOf(all)) THEN AllOf(all) ELSE Ok([i \in DOMAIN all |-> all[i].ok])

\* One turn of resolve_lenient's loop.
KeepOrSkip(done, map) ==
  LET r == resolve_one(map)
  IN  IF Failed(done) THEN done
      ELSE IF ~Failed(r) THEN Ok([done.ok EXCEPT !.resolved = Append(@, r.ok)])
      ELSE IF lenient_bool_key(map, "ContinueInitializationOnError", FALSE)
           THEN Ok([done.ok EXCEPT !.skipped = Append(@, r)])
      ELSE r

resolve_lenient(maps) == FoldLeft(KeepOrSkip, Ok([resolved |-> <<>>, skipped |-> <<>>]), maps)

-----------------------------------------------------------------------------
(* APPENDIX_A_KEYS by stance. *)
Implemented == {
  "BeginString", "SenderCompID", "SenderSubID", "SenderLocationID", "TargetCompID",
  "TargetSubID", "TargetLocationID", "SessionQualifier", "ConnectionType",
  "DefaultApplVerID", "UseDataDictionary", "DataDictionary", "AppDataDictionary",
  "TransportDataDictionary", "ValidateFieldsOutOfOrder", "ValidateFieldsHaveValues",
  "ValidateUnorderedGroupFields", "ValidateUserDefinedFields",
  "ValidateIncomingMessage", "ValidateChecksum", "AllowUnknownMsgFields",
  "CheckLatency", "MaxLatency", "CheckCompID", "RejectGarbledMessage",
  "FirstFieldInGroupIsDelimiter", "HeartBtInt", "HeartBeatTimeoutMultiplier",
  "DisableHeartBeatCheck", "TestRequestDelayMultiplier", "LogonTimeout",
  "LogoutTimeout", "LogonTag", "ResetOnLogon", "ResetOnLogout", "ResetOnDisconnect",
  "ResetOnError", "RefreshOnLogon", "PersistMessages", "ResendRequestChunkSize",
  "SendRedundantResendRequests", "EnableLastMsgSeqNumProcessed",
  "EnableNextExpectedMsgSeqNum", "RequiresOrigSendingTime", "AllowPosDup",
  "ForceResendWhenCorruptedStore", "DisconnectOnError", "TimeStampPrecision",
  "Protocol", "FastTemplatePath", "SbeSchemaPath", "ContinueInitializationOnError",
  "LogMessageWhenSessionNotFound", "InChanCapacity", "StartTime", "EndTime", "StartDay",
  "EndDay", "Weekdays", "TimeZone", "NonStopSession", "SocketAcceptAddress",
  "SocketAcceptPort", "AcceptorTemplate", "DynamicSession", "AllowedRemoteAddresses",
  "SocketConnectHost", "SocketConnectPort", "SocketConnectHost1", "SocketConnectPort1",
  "SocketConnectTimeout", "SocketLocalHost", "SocketLocalPort", "ReconnectInterval",
  "SocketKeepAlive", "SocketTcpNoDelay", "SocketReuseAddress", "SocketLinger",
  "SocketOobInline", "SocketReceiveBufferSize", "SocketSendBufferSize",
  "SocketTrafficClass", "SocketSynchronousWrites", "SocketSynchronousWriteTimeout",
  "SocketUseSSL", "EnabledProtocols", "CipherSuites", "SocketKeyStore",
  "SocketKeyStoreBytes", "SocketTrustStore", "SocketTrustStoreBytes", "NeedClientAuth",
  "UseSNI", "SNIHostName", "UseTCPProxy", "TrustedProxyAddresses", "ProxyType",
  "ProxyHost", "ProxyPort", "ProxyUser", "ProxyPassword", "FileStorePath",
  "FileStoreSync", "FileStoreMaxCachedMsgs", "FileLogPath", "FileLogHeartbeats",
  "FileIncludeMilliseconds", "FileIncludeTimeStampForMessages", "JdbcURL", "JdbcUser",
  "JdbcPassword", "JdbcStoreMessagesTableName", "JdbcStoreSessionsTableName",
  "JdbcLogIncomingTable", "JdbcLogOutgoingTable", "JdbcLogEventTable",
  "JdbcLogHeartBeats", "JdbcMaxActiveConnection", "JdbcMaxConnectionLifeTime",
  "JdbcMinIdleConnection", "JdbcConnectionTimeout", "JdbcConnectionIdleTimeout",
  "JdbcConnectionKeepaliveTime", "JdbcSessionIdDefaultPropertyValue"}

Recognized == {
  "Description", "ValidateSequenceNumbers", "RejectInvalidMessage",
  "EndpointIdentificationAlgorithm", "ScreenLogShowEvents", "ScreenLogShowHeartBeats",
  "ScreenLogShowIncoming", "ScreenLogShowOutgoing", "ScreenIncludeMilliseconds",
  "SLF4JLogPrependSessionID", "SLF4JLogHeartbeats", "JdbcDriver"}

Unsupported == {
  "RejectMessageOnUnhandledException", "ClosedResendInterval",
  "MaxScheduledWriteRequests", "SocketAcceptProtocol", "SocketConnectProtocol",
  "KeyStoreType", "KeyManagerFactoryAlgorithm", "TrustManagerFactoryAlgorithm",
  "TrustStoreType", "SocketKeyStorePassword", "SocketTrustStorePassword",
  "ProxyVersion", "ProxyDomain", "ProxyWorkstation", "SLF4JLogEventCategory",
  "SLF4JLogErrorEventCategory", "SLF4JLogIncomingMessageCategory",
  "SLF4JLogOutgoingMessageCategory", "JdbcDataSourceName", "JdbcConnectionTestQuery",
  "JndiContextFactory", "JndiProviderURL", "SleepycatDatabaseDir",
  "SleepycatMessageDbName", "SleepycatSequenceDbName"}

APPENDIX_A_KEYS == Implemented \cup Recognized \cup Unsupported

\* Keys whose value is free text: names, paths, hosts, credentials, lists of
\* suites.  AcceptorTemplate is one, since only its presence counts.
FreeText ==
  {"BeginString", "SenderCompID", "SenderSubID", "SenderLocationID", "TargetCompID",
   "TargetSubID", "TargetLocationID", "SessionQualifier", "DefaultApplVerID",
   "FastTemplatePath", "SbeSchemaPath", "SocketAcceptAddress", "AcceptorTemplate",
   "SocketConnectHost", "SocketConnectHost1", "CipherSuites", "SocketKeyStore",
   "SocketKeyStoreBytes", "SocketTrustStore", "SocketTrustStoreBytes", "SNIHostName",
   "ProxyHost", "ProxyUser", "ProxyPassword", "FileStorePath", "FileLogPath", "JdbcUser",
   "JdbcPassword", "JdbcStoreMessagesTableName", "JdbcStoreSessionsTableName",
   "JdbcLogIncomingTable", "JdbcLogOutgoingTable", "JdbcLogEventTable",
   "JdbcSessionIdDefaultPropertyValue"}

Set(map, key, v) == (key :> v) @@ map
Without(map, key) == [k \in DOMAIN map \ {key} |-> map[k]]

\* Some value of the key makes a difference to this session.
Matters(map, key, words) ==
  \E v \in words : resolve_one(Set(map, key, v)) # resolve_one(Without(map, key))

-----------------------------------------------------------------------------
(***************************************************************************)
(* Properties.                                                             *)
(***************************************************************************)

\* NEW-10, NEW-96, BUG-03: the registry tells the truth.  An Implemented key is
\* honored in some configuration, and no other key has an effect in any.
RegistryTellsTruth(key, contexts, words) ==
  (key \in Implemented) <=> \E map \in contexts : Matters(map, key, words)

\* NEW-112, NEW-113: where a key that is no free text matters, a value it cannot
\* have is an error, never a silent default.
GarbageRefused(key, contexts, words) ==
  key \notin FreeText =>
    \A map \in contexts : Matters(map, key, words) => Failed(resolve_one(Set(map, key, "garbage")))

\* ContinueInitializationOnError: sessions that resolve are kept whatever the
\* others do, only a session that asked for it is left out, and without such a
\* session the result is resolve's.
LenientKeepsTheRest(maps) ==
  LET r == resolve_lenient(maps)
      Good(map) == ~Failed(resolve_one(map))
      good == SelectSeq(maps, Good)
      Asked(map) == lenient_bool_key(map, "ContinueInitializationOnError", FALSE)
  IN  /\ Failed(r) <=> \E i \in DOMAIN maps : ~Good(maps[i]) /\ ~Asked(maps[i])
      /\ ~Failed(r) => /\ Ok(r.ok.resolved) = resolve(good)
                       /\ Len(r.ok.skipped) = Len(maps) - Len(good)
      /\ (\A i \in DOMAIN maps : ~Asked(maps[i])) =>
           IF Failed(r) THEN r = resolve(maps) ELSE Ok(r.ok.resolved) = resolve(maps)

\* BUG-04: for a jdbc: URL the store and the log of the session are on the same
\* database with the same credentials.
OneDatabase(map) ==
  LET store == resolve_store(map)
      log == resolve_log(map)
  IN  (Has(map, "JdbcURL") /\ UrlOf(map["JdbcURL"]).jdbc /\ ~Failed(store) /\ ~Failed(log)) =>
        store.ok.url = log.ok.url
=============================================================================
