---------------------------- MODULE MCAlertConsole ----------------------------
(* An instance of AlertConsole: one PATCH and one POST enrich, two kinds   *)
(* of rows, the four shipped providers and two plugins, one of which sets  *)
(* no config_name.                                                         *)
EXTENDS AlertConsole, TLC

CONSTANTS patch1, enrich1, kind1, kind2

OnePatch == {patch1}
OneEnrich == {enrich1}
TwoStatuses == {"new", "acknowledged"}
TwoKinds == {kind1, kind2}

Provider(class, config, bucket, keyed, scores, fields) ==
    [class |-> class, config |-> config, bucket |-> bucket, keyed |-> keyed,
     scores |-> scores, fields |-> fields]

Shipped ==
    <<Provider("AbuseIpDbProvider", "abuseipdb", "abuseipdb", TRUE, TRUE, {}),
      Provider("IpApiGeolocationProvider", "ip_api_geo", "ip_api", FALSE, FALSE, {"geo"}),
      Provider("IpApiAsnProvider", "ip_api_asn", "ip_api", FALSE, FALSE, {"asn"}),
      Provider("RdapWhoisProvider", "whois", "whois", FALSE, FALSE, {"whois"})>>

Installed ==
    {Provider("ExampleProvider", "example", "abuseipdb", FALSE, TRUE, {"geo"}),
     Provider("NamelessProvider", "", "abuseipdb", FALSE, TRUE, {})}

Funded == {"abuseipdb", "ip_api", "whois"}

SomeSettings ==
    [enabled : BOOLEAN,
     providers : {{"abuseipdb", "ip_api_geo", "example"}, {"abuseipdb", "example", "whois"},
                  {"abuseipdb", "ip_api_geo", "ip_api_asn", "whois"}},
     buckets : {Funded, Funded \ {"ip_api"}},
     private : BOOLEAN,
     key : BOOLEAN]
=============================================================================
