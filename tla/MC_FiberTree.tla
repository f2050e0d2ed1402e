---------------------------- MODULE MC_FiberTree ----------------------------
EXTENDS Suspense, TreeReflection
CONSTANTS top, app, provider, aside, panel, reader, sorry,
          stage, owner, shield, view, text, note, inside, fallback, spinner
Hosts == {aside, panel, sorry, text, note, spinner}
MCTag == [p \in Hosts |-> "HostComponent"]
         @@ [p \in {top, stage} |-> "HostRoot"]
         @@ [p \in {app, reader, owner, view} |-> "ClassComponent"]
         @@ [p \in {inside, fallback} |-> "Fragment"]
         @@ (provider :> "ContextProvider") @@ (shield :> "SuspenseComponent")
MCKids == (top :> <<app>>) @@ (app :> <<provider, aside>>) @@ (provider :> <<panel>>)
          @@ (panel :> <<reader>>)
          @@ (stage :> <<owner>>) @@ (owner :> <<shield>>) @@ (shield :> <<view, note>>)
          @@ (view :> <<text>>) @@ (fallback :> <<spinner>>)
          @@ [p \in {inside, reader} \cup Hosts |-> <<>>]
MCFallback == (app :> <<sorry>>) @@ (shield :> <<inside, fallback>>) @@ [p \in Places |-> <<>>]
MCMaxUpdates == (top :> 2) @@ (stage :> 2)
=============================================================================
