---------------------------- MODULE MCWarcStream ----------------------------
EXTENDS WarcStream

Field == [line |-> "field", value |-> 0]
Folded == [line |-> "folded", value |-> 0]
NoColon == [line |-> "nocolon", value |-> 0]
Length(n) == [line |-> "length", value |-> n]

R(kind, head, size) == [kind |-> kind, head |-> head, size |-> size]
P(ts) == [opts |-> 0, damage |-> "none", text |-> ts]
blank == R("blank", <<>>, 0)
garbage == R("garbage", <<>>, 0)

page == R("capture", <<Length(1)>>, 1)
info == R("warcinfo", <<Length(0)>>, 0)
long == R("capture", <<Field, Folded, Length(2)>>, 2)
twice == R("capture", <<Length(3), Length(0)>>, 0)
dns == R("dns", <<Length(1)>>, 1)
undated == R("invalid", <<Length(0)>>, 0)
huge == R("capture", <<Field, Field, Field, Length(1)>>, 1)
unfolded == R("capture", <<Length(1), Folded>>, 1)
short == R("capture", <<Length(0)>>, 1)
longer == R("capture", <<Length(6)>>, 1)
colon == R("capture", <<Length(0), NoColon>>, 0)

gz(parts) == [gz |-> TRUE, parts |-> parts]
plain(ts) == [gz |-> FALSE, parts |-> <<P(ts)>>]

MCObjects == {
  gz(<<P(<<info>>), [P(<<long>>) EXCEPT !.opts = 1], P(<<page>>)>>),
  gz(<<P(<<>>), P(<<garbage>>), P(<<blank, page>>)>>),
  gz(<<P(<<page, dns>>), P(<<short>>), P(<<undated>>)>>),
  gz(<<P(<<twice>>), [P(<<page>>) EXCEPT !.damage = "magic"], P(<<page>>)>>),
  gz(<<P(<<longer>>), [P(<<page>>) EXCEPT !.damage = "deflate"], P(<<page>>)>>),
  plain(<<info, blank, page, long>>),
  plain(<<page, dns, undated, twice>>),
  plain(<<page, short, page>>),
  plain(<<blank, page, huge, page>>),
  plain(<<page, garbage, page>>),
  plain(<<page, unfolded, page>>),
  plain(<<page, colon, page>>),
  plain(<<page, longer>>)}
=============================================================================
