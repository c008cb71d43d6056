---------------------------- MODULE MCCreateBuild ----------------------------
(* CreateBuild for TLC: the package's entry, two later ones, and a tree without one. *)
EXTENDS CreateBuild, TLC

Field(id, path, source) == [id |-> id, path |-> path, source |-> source, required |-> FALSE,
                            default |-> FALSE, check |-> FALSE, transform |-> "none",
                            from |-> "none"]
Required(f) == [f EXCEPT !.required = TRUE]
WithDefault(f) == [f EXCEPT !.default = TRUE]
Validated(f) == [f EXCEPT !.check = TRUE]
Render(f, transform) == [f EXCEPT !.transform = transform]
From(f, id) == [f EXCEPT !.from = id]

\* The shape of vsphere/agent.yaml: two manifests, the second with derived fields and hosts
InstallConfig ==
  << Field("kind", "kind", "constant"),
     Required(Field("name", "metadata.name", "user_input")),
     WithDefault(Field("replicas", "replicas", "user_input")),
     Required(Field("pull", "pullSecret", "keyring")),
     Field("vcenters", "vcenters", "environment_profile"),
     Required(Validated(Field("vip", "apiVIPs", "user_input"))) >>
AgentConfig ==
  << From(Field("agentName", "metadata.name", "derived"), "name"),
     From(Field("rendezvous", "rendezvousIP", "derived"), "vip"),
     Render(Required(Field("hosts", "hosts", "user_input")), "hosts_to_nmstate") >>

\* A later entry asks for more, and has fields that do not say where they are from
Later ==
  << Required(Field("name", "metadata.name", "user_input")),
     Required(Field("zone", "zone", "user_input")),
     WithDefault(Field("size", "size", "unsaid")),
     Required(Field("disk", "disk", "unsaid")) >>

\* An entry for a builder that knows one more source and one more transform
Newer == << Required(Field("name", "metadata.name", "user_input")),
            Render(Field("cidr", "clusterNetwork", "user_input"), "unknown"),
            Field("odd", "odd", "unknown") >>

Entries == "t0" :> InstallConfig \o AgentConfig @@ "t1" :> Later @@ "t2" :> <<>> @@ "t3" :> Newer
Previews == "t0" :> {} @@ "t1" :> {"entry"} @@ "t2" :> {"matrix"} @@ "t3" :> {}
=============================================================================
